---- MODULE Spec2Model ----
(***************************************************************************)
(* Scraper orchestration engine of gjkorne/scraper: the in-memory sliding  *)
(* window rate limiter, the per-strategy scrape pipeline (cache check,     *)
(* rate-limited fetch, extraction, validation, normalisation, cache        *)
(* write), the persistent cache store and the telemetry counters.          *)
(*                                                                         *)
(* Time is one integer clock `now`.  Durations (windowMs, ttl_hours,       *)
(* retryDelay) are expressed in ticks of that clock and scaled down so     *)
(* that windows close and entries expire inside the explored horizon.      *)
(***************************************************************************)
EXTENDS Integers, Sequences, FiniteSets, TLC

----------------------------------------------------------------------------
(* Bounds of the exploration *)

MaxTime == 4
MaxCalls == 4
MaxWaits == 3
MaxLimit == 2
MaxWindow == 2
MaxScrapes == 2
MaxFetchers == 3
MaxCacheCalls == 3
DefaultTtl == 2
GenericTtl == 1

Tasks == {1, 2}

----------------------------------------------------------------------------
(* URLs.  A URL is a record: `valid` is the outcome of `new URL(url)`,      *)
(* `host` its hostname and `path` the segments of its path.                *)

Url(h, p) == [valid |-> TRUE, host |-> h, path |-> p]
BadUrl == [valid |-> FALSE, host |-> "", path |-> <<"not a url">>]

UrlA1 == Url("linkedin.com", <<"jobs", "1">>)
UrlA2 == Url("linkedin.com", <<"jobs", "2">>)
UrlB1 == Url("example.com", <<"job", "123">>)

LimiterUrls == {UrlA1, UrlA2, UrlB1, BadUrl}
WaitUrls == {UrlA1, UrlB1}
ScrapeUrls == {UrlA1, UrlB1, BadUrl}

isValidUrl(url) == url.valid

----------------------------------------------------------------------------
VARIABLES
  now,                \* the clock read by Date.now()
  options,            \* RateLimiter.options
  requestTimestamps,  \* RateLimiter.requestTimestamps : Map<string, number[]>
  admitLog,           \* history: every admission <<hostname, time>> in call order
  lastCall,           \* history: the last RateLimiter method call
  task,               \* per task: position in waitForRateLimit / withRateLimit / scrape
  calls,              \* number of operations started so far
  scraper_cache,      \* table scraper_cache, keyed by its UNIQUE url
  ready,              \* ScraperCache.ready
  monitor,            \* the ScraperMonitor singleton
  fetchLog,           \* history: <<hostname, time>> of the fetchPage calls of
                      \* the last windowMs
  results,            \* history: per URL, the last write of its row
  scrapers            \* ScraperFactory.scrapers, in registration order

engineVars == <<scraper_cache, ready, monitor, fetchLog, results, scrapers>>

vars == <<now, options, requestTimestamps, admitLog, lastCall, task, calls,
          engineVars>>

----------------------------------------------------------------------------
(* JavaScript helpers *)

Max(a, b) == IF a >= b THEN a ELSE b

\* Map.get(key) || []
MapGet(m, k) == IF k \in DOMAIN m THEN m[k] ELSE <<>>

\* Map.set(key, value)
MapSet(m, k, v) == [x \in (DOMAIN m) \cup {k} |-> IF x = k THEN v ELSE m[x]]

\* [...timestamps].sort((a, b) => a - b)[0]
RECURSIVE SeqMin(_)
SeqMin(s) ==
  IF Len(s) = 1 THEN s[1]
  ELSE LET m == SeqMin(Tail(s)) IN IF s[1] <= m THEN s[1] ELSE m

\* Text is a sequence of tokens: " " is one whitespace character, "|" and
\* "-" are themselves, any other token is a run of non-blank characters.
IsBlank(c) == c = " "

\* String.prototype.trim()
RECURSIVE TrimLeft(_)
TrimLeft(s) ==
  IF s = <<>> THEN s ELSE IF IsBlank(Head(s)) THEN TrimLeft(Tail(s)) ELSE s

RECURSIVE TrimRight(_)
TrimRight(s) ==
  IF s = <<>> THEN s
  ELSE IF IsBlank(s[Len(s)]) THEN TrimRight(SubSeq(s, 1, Len(s) - 1)) ELSE s

Trim(s) == TrimRight(TrimLeft(s))

\* s.replace(/\s+/g, ' ')
RECURSIVE CollapseBlanks(_)
CollapseBlanks(s) ==
  IF Len(s) < 2 THEN s
  ELSE IF IsBlank(s[1]) /\ IsBlank(s[2]) THEN CollapseBlanks(Tail(s))
  ELSE <<s[1]>> \o CollapseBlanks(Tail(s))

\* s.split(sep): the parts between the tokens of seps
RECURSIVE Split(_, _)
Split(s, seps) ==
  IF \A i \in 1..Len(s) : s[i] \notin seps THEN <<s>>
  ELSE LET k == CHOOSE i \in 1..Len(s) :
                  s[i] \in seps /\ \A j \in 1..(i - 1) : s[j] \notin seps
       IN <<SubSeq(s, 1, k - 1)>> \o Split(SubSeq(s, k + 1, Len(s)), seps)

\* a || b for strings: the empty string is falsy
Or(a, b) == IF a # <<>> THEN a ELSE b

\* the first element of a selection whose trimmed text is not empty
RECURSIVE FirstText(_)
FirstText(els) ==
  IF els = <<>> THEN <<>>
  ELSE IF Trim(Head(els)) # <<>> THEN Trim(Head(els)) ELSE FirstText(Tail(els))

----------------------------------------------------------------------------
(* RateLimiter *)

getDomainKey_AlwaysGlobal(url) == "global"

getDomainKey(url) ==
  IF isValidUrl(url)
    THEN (IF options.perDomain THEN url.host ELSE "global")
    ELSE "global"

InWindow_Inclusive(timestamps, t) ==
  SelectSeq(timestamps, LAMBDA ts : t - ts <= options.windowMs)

\* timestamps.filter(timestamp => now - timestamp < windowMs)
InWindow(timestamps, t) ==
  SelectSeq(timestamps, LAMBDA ts : t - ts < options.windowMs)

isRateLimited_StaleRead(store, url, t) ==
  Len(SelectSeq(InWindow(MapGet(store, getDomainKey(url)), t),
                LAMBDA ts : ts < t)) >= options.requestsPerMinute

isRateLimited_OffByOne(store, url, t) ==
  Len(InWindow(MapGet(store, getDomainKey(url)), t)) > options.requestsPerMinute

\* the value isRateLimited(url) returns on `store` at time t
isRateLimited(store, url, t) ==
  Len(InWindow(MapGet(store, getDomainKey(url)), t)) >= options.requestsPerMinute

isRateLimitedStore_AlwaysRecords(store, url, t) ==
  MapSet(store, getDomainKey(url),
         Append(InWindow(MapGet(store, getDomainKey(url)), t), t))

\* the map isRateLimited(url) leaves behind
isRateLimitedStore(store, url, t) ==
  IF isRateLimited(store, url, t)
    THEN store
    ELSE MapSet(store, getDomainKey(url),
                Append(InWindow(MapGet(store, getDomainKey(url)), t), t))

getTimeUntilReset_Newest(store, url, t) ==
  LET timestamps == MapGet(store, getDomainKey(url)) IN
  IF Len(timestamps) = 0 THEN 0
  ELSE IF Len(timestamps) < options.requestsPerMinute THEN 0
  ELSE Max(0, timestamps[Len(timestamps)] + options.windowMs - t)

getTimeUntilReset_NoFloor(store, url, t) ==
  LET timestamps == MapGet(store, getDomainKey(url)) IN
  IF Len(timestamps) = 0 THEN 0
  ELSE IF Len(timestamps) < options.requestsPerMinute THEN 0
  ELSE SeqMin(timestamps) + options.windowMs - t

getTimeUntilReset(store, url, t) ==
  LET timestamps == MapGet(store, getDomainKey(url)) IN
  IF Len(timestamps) = 0 THEN 0
  ELSE IF Len(timestamps) < options.requestsPerMinute THEN 0
  ELSE Max(0, SeqMin(timestamps) + options.windowMs - t)

\* One execution of isRateLimited(url) at the current instant, with the
\* history variables that record it.
DoIsRateLimited(url) ==
  LET ret == isRateLimited(requestTimestamps, url, now) IN
  /\ requestTimestamps' = isRateLimitedStore(requestTimestamps, url, now)
  /\ admitLog' = IF ret THEN admitLog ELSE Append(admitLog, <<url.host, now>>)
  /\ lastCall' = [op |-> "isRateLimited", url |-> url, ret |-> ret, val |-> 0,
                  at |-> now, before |-> requestTimestamps]

\* Milliseconds waitForRateLimit sleeps when its isRateLimited call returned
\* `limited` and left `store` behind (0: no timer is set).
waitForRateLimitDelay_Double(limited, store, url, t) ==
  IF limited THEN 2 * getTimeUntilReset(store, url, t) ELSE 0

waitForRateLimitDelay(limited, store, url, t) ==
  IF limited THEN getTimeUntilReset(store, url, t) ELSE 0

\* Tasks are anonymous: a new call runs as the first task that is free.
FirstIdle(t) ==
  /\ task[t].pc = "idle"
  /\ \A s \in Tasks : s < t => task[s].pc # "idle"

\* ScrapedData; until scrape stamps them url and scraper are unset
Data(ti, co, de, u, n) ==
  [title |-> ti, company |-> co, description |-> de, url |-> u, scraper |-> n]

NoData == Data(<<>>, <<>>, <<>>, BadUrl, "")

\* no page fetched
NoPage == [status |-> 0]

\* ScraperError; all fields empty: nothing thrown
NoError == [code |-> "", message |-> "", technicalDetails |-> "",
            suggestion |-> ""]

\* no response sent; a field left out of a response body is empty here
NoResponse == [status |-> 0, error |-> "", details |-> <<>>, suggestion |-> "",
               type |-> "", message |-> "", code |-> "",
               technicalDetails |-> "", data |-> NoData]

IdleTask == [pc |-> "idle", kind |-> "none", url |-> BadUrl, calledAt |-> 0,
             limited |-> FALSE, logLen |-> 0, waitTime |-> 0, wakeAt |-> 0,
             resumedAt |-> 0, fnAt |-> 0, waited |-> FALSE,
             \* scrape: the strategy, the options and the locals of scrape()
             name |-> "", bypass_cache |-> FALSE, startTime |-> 0,
             cacheHit |-> FALSE, data |-> NoData, err |-> "",
             \* history of this scrape
             status |-> 0, lookup |-> "none", hitBefore |-> 0,
             hitAfter |-> 0, slots |-> 0, fetches |-> 0, writes |-> 0,
             wroteAt |-> 0, hitEvents |-> 0, missEvents |-> 0,
             extracted |-> NoData,
             \* a direct call of a ScraperCache or ScraperFactory method:
             \* the method, its options and what it returned
             op |-> "none", update_hit_count |-> FALSE, entry |-> <<>>,
             ok |-> FALSE, consulted |-> <<>>,
             \* fetchWithRetry: its options, its locals and the history of
             \* its attempts and backoff delays
             retries |-> 0, retryDelay |-> 0, attemptsLeft |-> 0,
             attempts |-> 0, attemptAt |-> <<>>, delays |-> <<>>,
             lastError |-> "", error |-> NoError,
             \* history: the page the scrape fetched
             page |-> NoPage,
             \* an inbound request: the entry point serving it, its local
             \* scraperUsed, the strategies it scraped with, the messages
             \* of the errors they threw, and the response
             handler |-> "none", scraperUsed |-> "", tried |-> <<>>,
             errors |-> <<>>, resp |-> NoResponse,
             \* history of a request: the fetch attempts and the
             \* waitForRateLimit calls of its earlier scrape
             spentAttempts |-> 0, spentWaits |-> 0]

\* The synchronous part of waitForRateLimit(url), run by task t: the
\* isRateLimited check and, when limited, the timer for getTimeUntilReset.
WaitForRateLimitBegin(t, url, rec) ==
  LET limited == isRateLimited(requestTimestamps, url, now)
      waitTime == waitForRateLimitDelay(limited,
                    isRateLimitedStore(requestTimestamps, url, now), url, now)
  IN /\ DoIsRateLimited(url)
     /\ task' = [task EXCEPT ![t] =
          [rec EXCEPT
             !.url = url, !.calledAt = now,
             !.limited = limited,
             !.logLen = Len(admitLog),
             !.slots = @ + 1,
             !.waitTime = waitTime,
             !.wakeAt = now + waitTime,
             !.pc = IF waitTime > 0 THEN "sleeping" ELSE "resolved",
             !.resumedAt = now,
             !.waited = ~(waitTime > 0)]]

----------------------------------------------------------------------------
(* Direct calls of the RateLimiter methods *)

IsRateLimitedCall(url) ==
  /\ calls < MaxCalls
  /\ calls' = calls + 1
  /\ DoIsRateLimited(url)
  /\ UNCHANGED <<engineVars, now, options, task>>

GetTimeUntilResetCall(url) ==
  /\ calls < MaxCalls
  /\ calls' = calls + 1
  /\ lastCall' = [op |-> "getTimeUntilReset", url |-> url, ret |-> FALSE,
                  val |-> getTimeUntilReset(requestTimestamps, url, now),
                  at |-> now, before |-> requestTimestamps]
  /\ UNCHANGED <<engineVars, now, options, requestTimestamps, admitLog, task>>

\* await limiter.waitForRateLimit(url), called on its own
WaitForRateLimitCall(t, url) ==
  /\ calls < MaxWaits
  /\ FirstIdle(t)
  /\ calls' = calls + 1
  /\ WaitForRateLimitBegin(t, url, [IdleTask EXCEPT !.kind = "wait"])
  /\ UNCHANGED <<engineVars, now, options>>

TimerFires_Rechecks(t) ==
  /\ task[t].pc = "sleeping"
  /\ now >= task[t].wakeAt
  /\ DoIsRateLimited(task[t].url)
  /\ task' = [task EXCEPT ![t].pc = "resolved", ![t].resumedAt = now,
                          ![t].waited = TRUE]
  /\ UNCHANGED <<engineVars, now, options, calls>>

\* setTimeout(resolve, waitTime) fires
TimerFires(t) ==
  /\ task[t].pc = "sleeping"
  /\ now >= task[t].wakeAt
  /\ task' = [task EXCEPT ![t].pc = "resolved", ![t].resumedAt = now,
                          ![t].waited = TRUE]
  /\ UNCHANGED <<engineVars, now, options, requestTimestamps, admitLog, lastCall, calls>>

\* the wrapper withRateLimit(fn, limiter) returns, called with url
WithRateLimitCall_NoWait(t, url) ==
  /\ calls < MaxWaits
  /\ FirstIdle(t)
  /\ calls' = calls + 1
  /\ task' = [task EXCEPT ![t] =
       [IdleTask EXCEPT !.kind = "wrapped", !.url = url, !.calledAt = now,
                        !.logLen = Len(admitLog),
                        !.limited = isRateLimited(requestTimestamps, url, now),
                        !.pc = "fnCalled", !.fnAt = now]]
  /\ UNCHANGED <<engineVars, now, options, requestTimestamps, admitLog, lastCall>>

WithRateLimitCall(t, url) ==
  /\ calls < MaxWaits
  /\ FirstIdle(t)
  /\ calls' = calls + 1
  /\ WaitForRateLimitBegin(t, url, [IdleTask EXCEPT !.kind = "wrapped"])
  /\ UNCHANGED <<engineVars, now, options>>

\* the continuation after `await rateLimiter.waitForRateLimit(url)`:
\* the wrapper invokes fn(...args); a bare call just returns
WaitReturns(t) ==
  /\ task[t].pc = "resolved"
  /\ task[t].kind \in {"wait", "wrapped"}
  /\ task' = [task EXCEPT
       ![t].pc = IF task[t].kind = "wrapped" THEN "fnCalled" ELSE "returned",
       ![t].fnAt = now]
  /\ UNCHANGED <<engineVars, now, options, requestTimestamps, admitLog, lastCall, calls>>

\* the caller has its result
TaskEnds(t) ==
  /\ \/ /\ task[t].pc \in {"fnCalled", "returned", "done", "failed"}
        /\ task[t].handler = "none"
     \/ task[t].pc = "responded"
  /\ task' = [task EXCEPT ![t] = IdleTask]
  /\ UNCHANGED <<engineVars, now, options, requestTimestamps, admitLog, lastCall, calls>>

\* Time passes.  A due timer fires at its due time and a continuation of a
\* settled promise runs before the clock moves on; a cache RPC or a page
\* fetch takes less than a tick, and a finished scrape is collected at once.
Tick ==
  /\ now < MaxTime
  /\ \A t \in Tasks : task[t].pc \notin {"resolved", "cacheGet", "fetching",
                                          "cacheSet", "done", "failed",
                                          "inserting", "scraping",
                                          "responded", "updating"}
  /\ \A t \in Tasks : task[t].pc = "sleeping" => task[t].wakeAt > now
  /\ now' = now + 1
  /\ UNCHANGED <<engineVars, options, requestTimestamps, admitLog, lastCall, task, calls>>

NoCall == [op |-> "none", url |-> BadUrl, ret |-> FALSE, val |-> 0, at |-> 0,
           before |-> <<>>]

\* new ScraperMonitor()
NewMonitor ==
  [scraperMetrics |-> <<>>,
   cacheMetrics |-> [hits |-> 0, misses |-> 0, errors |-> 0],
   rateLimitMetrics |-> [limited |-> 0, waitTime |-> 0],
   domainRequests |-> <<>>]

\* new RateLimiter(options), nothing called yet
InitRateLimiter(perDomainChoices) ==
  /\ now = 0
  /\ options \in [requestsPerMinute : 1..MaxLimit, windowMs : 1..MaxWindow,
                   perDomain : perDomainChoices]
  /\ requestTimestamps = <<>>
  /\ admitLog = <<>>
  /\ lastCall = NoCall
  /\ task = [t \in Tasks |-> IdleTask]
  /\ calls = 0
  /\ scraper_cache = <<>>
  /\ monitor = NewMonitor
  /\ fetchLog = <<>>
  /\ results = <<>>
  /\ scrapers = <<>>

\* a limiter of any configuration, used on its own
InitLimiter ==
  /\ InitRateLimiter(BOOLEAN)
  /\ ready = FALSE

NextLimiter ==
  \/ \E url \in LimiterUrls : IsRateLimitedCall(url)
  \/ \E url \in LimiterUrls : GetTimeUntilResetCall(url)
  \/ Tick

SpecLimiter == InitLimiter /\ [][NextLimiter]_vars

NextWait ==
  \/ \E t \in Tasks, url \in WaitUrls : WaitForRateLimitCall(t, url)
  \/ \E t \in Tasks, url \in WaitUrls : WithRateLimitCall(t, url)
  \/ \E t \in Tasks : TimerFires(t)
  \/ \E t \in Tasks : WaitReturns(t)
  \/ \E t \in Tasks : TaskEnds(t)
  \/ Tick

SpecWait == InitLimiter /\ [][NextWait]_vars

----------------------------------------------------------------------------
(* Scraper strategies *)

Scrapers == {"LinkedIn", "Generic"}

\* The text of a URL, as the patterns see it: the hostname and the path
\* segments, in order.
UrlText(url) == <<url.host>> \o url.path

\* the pattern pieces a hostname or path segment contains
Pieces(token) ==
  CASE token = "boards.greenhouse.io" -> {"boards.greenhouse.io", "greenhouse.io"}
    [] token = "acme.myworkdayjobs.com" -> {"myworkdayjobs.com"}
    [] token = "indeed.com" -> {"indeed.com", "indeed.[a-z]{2}"}
    [] token = "jobs" -> {"jobs", "job"}
    [] OTHER -> {token}

domainPatterns_NoCatchAll(name) == {<<"linkedin.com", "jobs">>}

\* this.domainPatterns of each strategy, a pattern being the pieces it asks
\* for in consecutive positions of the text; /.*/ asks for nothing
domainPatterns(name) ==
  CASE name = "LinkedIn" -> {<<"linkedin.com", "jobs">>, <<"linkedin.com", "job">>}
    [] name = "Greenhouse" -> {<<"greenhouse.io">>, <<"boards.greenhouse.io">>}
    [] name = "Workday" -> {<<"workday.com">>, <<"myworkdayjobs.com">>}
    [] name = "Busey" -> {<<"busey.com">>, <<"busey.bank">>}
    [] name = "Indeed" -> {<<"indeed.com">>, <<"indeed.co.[a-z]{2}">>,
                           <<"indeed.[a-z]{2}">>}
    [] name = "Glassdoor" -> {<<"glassdoor.com">>, <<"glassdoor.[a-z]{2,3}">>}
    [] OTHER -> {<<>>}

\* pattern.test(url): the pattern occurs somewhere in the text
test(pattern, url) ==
  LET text == UrlText(url)
  IN \E i \in 0..(Len(text) - Len(pattern)) :
       \A k \in 1..Len(pattern) : pattern[k] \in Pieces(text[i + k])

\* domainPatterns.some(pattern => pattern.test(url))
domainPatternMatches(name, url) ==
  \E pattern \in domainPatterns(name) : test(pattern, url)

canHandle(name, url) == isValidUrl(url) /\ domainPatternMatches(name, url)

\* this.cacheOptions: 24 hours, 12 for the generic strategy
cacheOptions(name) ==
  [ttl_hours |-> IF name = "Generic" THEN GenericTtl ELSE DefaultTtl,
   bypass_cache |-> FALSE]

----------------------------------------------------------------------------
(* Fetched pages.  A page is the text under each selector the strategies   *)
(* read; `containerLong` says that the text of the largest div/section/    *)
(* article, trimmed, is longer than 200 characters; `jsonLd` is the name   *)
(* of the hiringOrganization in the page's application/ld+json script.     *)

EmptyPage ==
  [status |-> 200,
   topCardTitle |-> <<>>, h1 |-> <<>>, unifiedTitle |-> <<>>,
   topCardCompany |-> <<>>, unifiedCompany |-> <<>>, companyName |-> <<>>,
   descriptionText |-> <<>>, unifiedDescription |-> <<>>,
   jobDescription |-> <<>>,
   titleTag |-> <<>>, companyEls |-> <<>>, descriptionEls |-> <<>>,
   container |-> <<>>, containerLong |-> FALSE, jsonLd |-> <<>>]

\* a LinkedIn posting, with the layout's padding around its texts
PageFull ==
  [EmptyPage EXCEPT
     !.topCardTitle = <<" ", "Senior", " ", " ", "Engineer", " ">>,
     !.topCardCompany = <<"Acme", " ">>,
     !.descriptionText = <<" ", "Build", " ", " ", "things">>,
     !.titleTag = <<"Senior", " ", "Engineer", " ", "|", " ", "Acme">>]

\* a page of any other site
PageOther ==
  [EmptyPage EXCEPT
     !.h1 = <<"Analyst">>,
     !.companyEls = <<<<" ">>, <<" ", "Globex">>>>,
     !.container = <<" ", "About", " ", " ", "the", " ", "role", " ">>,
     !.containerLong = TRUE]

\* elements are there but hold only whitespace
PageBlank ==
  [EmptyPage EXCEPT
     !.topCardTitle = <<"Engineer">>,
     !.descriptionText = <<"Build">>,
     !.h1 = <<" ">>,
     !.topCardCompany = <<" ">>,
     !.titleTag = <<" ", "|", " ">>,
     !.companyEls = <<<<" ">>>>,
     !.descriptionEls = <<<<" ", " ">>>>,
     !.container = <<" ", "short">>]

Pages == {PageFull, PageOther, PageBlank}

\* a posting whose company is named only in its JSON-LD block
PageJsonLd ==
  [EmptyPage EXCEPT
     !.topCardTitle = <<"Engineer">>,
     !.descriptionText = <<"Build">>,
     !.descriptionEls = <<<<"Build">>>>,
     !.titleTag = <<"Engineer">>,
     !.jsonLd = <<"Initech">>]

JsonLdPages == {PageFull, PageJsonLd}

\* a LinkedIn posting whose top card names no company: the site's selectors
\* find a title and a description, the generic ones find other elements
PagePartial ==
  [EmptyPage EXCEPT
     !.topCardTitle = <<"Lead">>,
     !.descriptionText = <<"Build">>,
     !.h1 = <<"Careers">>,
     !.companyEls = <<<<"Globex">>>>,
     !.descriptionEls = <<<<"About">>>>]

FallbackPages == {PageFull, PageOther, PageBlank, PagePartial}

\* cleanDom: $('script').remove(), the JSON-LD scripts with the others
cleanDom(page) == [page EXCEPT !.jsonLd = <<>>]

\* parseHtml(html) == cleanDom(load(html))
parseHtml(page) == cleanDom(page)

\* LinkedInScraper.extractData
linkedInExtractData(page, url) ==
  Data(Or(Trim(page.topCardTitle), Or(Trim(page.h1), Trim(page.unifiedTitle))),
       Or(Trim(page.topCardCompany),
          Or(Trim(page.unifiedCompany), Trim(page.companyName))),
       Or(Trim(page.descriptionText),
          Or(Trim(page.unifiedDescription), Trim(page.jobDescription))),
       BadUrl, "")

\* extractJobData($, url) of the html utilities
extractJobData(page, url) ==
  LET title == Or(page.h1,
                 Or(Split(page.titleTag, {"|"})[1],
                    Or(Split(page.titleTag, {"-"})[1],
                       <<"Unknown", " ", "Position">>)))
      company1 == FirstText(page.companyEls)
      titleParts == Split(page.titleTag, {"|", "-"})
      company2 == IF company1 = <<>> /\ Len(titleParts) > 1
                    THEN Trim(titleParts[2]) ELSE company1
      company == Or(company2, <<"Unknown", " ", "Company">>)
      description1 == FirstText(page.descriptionEls \o <<page.jobDescription>>)
      description == IF description1 = <<>> /\ page.containerLong
                       THEN Trim(page.container) ELSE description1
  IN Data(Trim(title), company, description, url, "Generic")

\* this.extractData($, url) of strategy `name`
extractData(name, page, url) ==
  IF name = "LinkedIn" THEN linkedInExtractData(page, url)
  ELSE extractJobData(page, url)

\* !data.title || !data.company || !data.description
missingFields(data) ==
  data.title = <<>> \/ data.company = <<>> \/ data.description = <<>>

extractWithFallback_Merge(name, page, url) ==
  LET data == extractData(name, page, url)
      generic == extractJobData(page, url)
  IN IF missingFields(data)
       THEN [generic EXCEPT
               !.title = IF data.title # <<>> THEN data.title ELSE @,
               !.company = IF data.company # <<>> THEN data.company ELSE @,
               !.description = IF data.description # <<>>
                                 THEN data.description ELSE @]
     ELSE data

\* the record scrape hands to validateJobData
extractWithFallback(name, page, url) ==
  LET data == extractData(name, page, url)
  IN IF missingFields(data) THEN extractJobData(page, url) ELSE data

validateJobData_TitleOnly(data) == data.title # <<>>

\* validateJobData: TRUE when it returns, FALSE when it throws
validateJobData(data) == ~missingFields(data)

cleanJobData(data) ==
  [data EXCEPT !.title = Trim(CollapseBlanks(data.title)),
               !.company = Trim(CollapseBlanks(data.company)),
               !.description = Trim(CollapseBlanks(data.description))]

\* data.scraper = this.name; data.url = url
stamp(data, name, url) == [data EXCEPT !.scraper = name, !.url = url]

----------------------------------------------------------------------------
(* ScraperMonitor *)

\* recordScrape(scraperName, durationMs, successful, url)
recordScrape(m, name, durationMs, successful, url) ==
  LET old == IF name \in DOMAIN m.scraperMetrics
               THEN m.scraperMetrics[name]
               ELSE [count |-> 0, totalTime |-> 0, min |-> durationMs,
                     max |-> 0, errors |-> 0]
      metrics == [count |-> old.count + 1,
                  totalTime |-> old.totalTime + durationMs,
                  min |-> IF old.min <= durationMs THEN old.min ELSE durationMs,
                  max |-> Max(old.max, durationMs),
                  errors |-> IF successful THEN old.errors ELSE old.errors + 1]
      domainCount == IF url.host \in DOMAIN m.domainRequests
                       THEN m.domainRequests[url.host] ELSE 0
  IN [m EXCEPT
        !.scraperMetrics = MapSet(@, name, metrics),
        !.domainRequests = IF isValidUrl(url)
                             THEN MapSet(@, url.host, domainCount + 1) ELSE @]

\* recordCacheAccess(hit, error)
recordCacheAccess(m, hit, error) ==
  [m EXCEPT
     !.cacheMetrics.hits = IF hit THEN @ + 1 ELSE @,
     !.cacheMetrics.misses = IF hit THEN @ ELSE @ + 1,
     !.cacheMetrics.errors = IF error THEN @ + 1 ELSE @]

\* recordRateLimit(waitTimeMs)
recordRateLimit(m, waitTimeMs) ==
  [m EXCEPT !.rateLimitMetrics.limited = @ + 1,
            !.rateLimitMetrics.waitTime = @ + waitTimeMs]

----------------------------------------------------------------------------
(* The cache table and its two functions *)

\* JSON.stringify / JSONB of a ScrapedData: its five string properties
toJsonb(data) ==
  [title |-> data.title, company |-> data.company,
   description |-> data.description, url |-> data.url,
   scraper |-> data.scraper]

upsert_scraper_cache_KeepExpiry(store, url, content, name, status, ttl, t) ==
  IF url \in DOMAIN store
    THEN MapSet(store, url,
           [store[url] EXCEPT !.content = content, !.scraper_name = name,
                              !.status_code = status,
                              !.cache_hit_count = 0, !.updated_at = t])
    ELSE MapSet(store, url,
           [content |-> content, scraper_name |-> name, status_code |-> status,
            created_at |-> t, updated_at |-> t, expires_at |-> t + ttl,
            cache_hit_count |-> 0])

\* upsert_scraper_cache(p_url, p_content, p_scraper_name, p_status_code, ..,
\* p_ttl_hours) run at time t: the table it leaves behind
upsert_scraper_cache(store, url, content, name, status, ttl, t) ==
  IF url \in DOMAIN store
    THEN MapSet(store, url,
           [store[url] EXCEPT !.content = content, !.scraper_name = name,
                              !.status_code = status, !.expires_at = t + ttl,
                              !.cache_hit_count = 0, !.updated_at = t])
    ELSE MapSet(store, url,
           [content |-> content, scraper_name |-> name, status_code |-> status,
            created_at |-> t, updated_at |-> t, expires_at |-> t + ttl,
            cache_hit_count |-> 0])

get_scraper_cache_LateExpiry(store, url, t) ==
  IF url \in DOMAIN store
    THEN <<[content |-> store[url].content,
            cache_hit_count |-> store[url].cache_hit_count,
            expires_at |-> store[url].expires_at,
            is_expired |-> store[url].expires_at + 1 < t]>>
    ELSE <<>>

get_scraper_cache_NeverExpired(store, url, t) ==
  IF url \in DOMAIN store
    THEN <<[content |-> store[url].content,
            cache_hit_count |-> store[url].cache_hit_count,
            expires_at |-> store[url].expires_at,
            is_expired |-> FALSE]>>
    ELSE <<>>

\* the rows get_scraper_cache(p_url, ..) returns at time t
get_scraper_cache(store, url, t) ==
  IF url \in DOMAIN store
    THEN <<[content |-> store[url].content,
            cache_hit_count |-> store[url].cache_hit_count,
            expires_at |-> store[url].expires_at,
            is_expired |-> store[url].expires_at < t]>>
    ELSE <<>>

get_scraper_cache_Store_NoCount(store, url, update_hit_count, t) == store

\* the table get_scraper_cache leaves behind
get_scraper_cache_Store(store, url, update_hit_count, t) ==
  IF update_hit_count /\ url \in DOMAIN store
    THEN MapSet(store, url,
           [store[url] EXCEPT !.cache_hit_count = @ + 1, !.updated_at = t])
    ELSE store

----------------------------------------------------------------------------
(* BaseScraper.scrape(url, options) of the strategy `name` *)

limiterVars == <<requestTimestamps, admitLog, lastCall>>

Scrape_IgnoresBypass(t, url, name, bypass) ==
  /\ FirstIdle(t)
  /\ calls' = calls + 1
  /\ LET rec == [IdleTask EXCEPT
                   !.kind = "scrape", !.url = url, !.name = name,
                   !.bypass_cache = bypass \/ cacheOptions(name).bypass_cache,
                   !.startTime = now]
     IN IF ~isValidUrl(url)
          THEN /\ task' = [task EXCEPT ![t] =
                    [rec EXCEPT !.pc = "failed", !.err = "INVALID_URL"]]
               /\ UNCHANGED limiterVars
        ELSE IF ~canHandle(name, url)
          THEN /\ task' = [task EXCEPT ![t] =
                    [rec EXCEPT !.pc = "failed", !.err = "CANNOT_HANDLE"]]
               /\ UNCHANGED limiterVars
        ELSE IF ready
          THEN /\ task' = [task EXCEPT ![t] = [rec EXCEPT !.pc = "cacheGet"]]
               /\ UNCHANGED limiterVars
        ELSE WaitForRateLimitBegin(t, url, rec)
  /\ UNCHANGED <<engineVars, now, options>>

ScrapeBegin_GuardsLate(t, url, name, bypass, base) ==
  LET rec == [base EXCEPT
                !.kind = "scrape", !.url = url, !.name = name,
                !.bypass_cache = bypass \/ cacheOptions(name).bypass_cache,
                !.startTime = now]
  IN IF ~rec.bypass_cache /\ ready
       THEN /\ task' = [task EXCEPT ![t] = [rec EXCEPT !.pc = "cacheGet"]]
            /\ UNCHANGED limiterVars
     ELSE WaitForRateLimitBegin(t, url, rec)

\* The call, up to its first await, run by task t whose record so far is
\* `base`: the URL guard (INVALID_URL for a malformed URL, "cannot handle"
\* for a URL of another site), the merge of the options, and either the
\* cache lookup or, when the cache is bypassed or not ready, the rate limiter.
ScrapeBegin(t, url, name, bypass, base) ==
  LET rec == [base EXCEPT
                !.kind = "scrape", !.url = url, !.name = name,
                !.bypass_cache = bypass \/ cacheOptions(name).bypass_cache,
                !.startTime = now]
  IN IF ~isValidUrl(url)
       THEN /\ task' = [task EXCEPT ![t] =
                 [rec EXCEPT !.pc = "failed", !.err = "INVALID_URL"]]
            /\ UNCHANGED limiterVars
     ELSE IF ~canHandle(name, url)
       THEN /\ task' = [task EXCEPT ![t] =
                 [rec EXCEPT !.pc = "failed", !.err = "CANNOT_HANDLE"]]
            /\ UNCHANGED limiterVars
     ELSE IF ~rec.bypass_cache /\ ready
       THEN /\ task' = [task EXCEPT ![t] = [rec EXCEPT !.pc = "cacheGet"]]
            /\ UNCHANGED limiterVars
     ELSE WaitForRateLimitBegin(t, url, rec)

\* scraper.scrape(url, options), called on its own
Scrape(t, url, name, bypass) ==
  /\ FirstIdle(t)
  /\ calls' = calls + 1
  /\ ScrapeBegin(t, url, name, bypass, IdleTask)
  /\ UNCHANGED <<engineVars, now, options>>

\* scraper.scrape(url, { bypass_cache })
ScrapeCall(t, url, name, bypass) ==
  /\ calls < MaxScrapes
  /\ Scrape(t, url, name, bypass)

\* genericScraper.scrape(url) in a deployment without cache credentials
ScrapeNoCache(t, url) ==
  /\ calls < MaxFetchers
  /\ ~ready
  /\ Scrape(t, url, "Generic", FALSE)

\* scraperCache.get resolves with the rows of get_scraper_cache: a fresh
\* entry ends the scrape, anything else is a miss and goes on to the limiter
CacheGetReturns(t) ==
  /\ task[t].pc = "cacheGet"
  /\ LET url == task[t].url
         rows == get_scraper_cache(scraper_cache, url, now)
         hit == rows # <<>> /\ ~rows[1].is_expired
     IN /\ scraper_cache' = get_scraper_cache_Store(scraper_cache, url, TRUE, now)
        /\ monitor' = recordCacheAccess(monitor, hit, FALSE)
        /\ IF hit
             THEN /\ task' = [task EXCEPT ![t] =
                       [task[t] EXCEPT
                          !.pc = "done", !.cacheHit = TRUE, !.lookup = "hit",
                          !.data = rows[1].content,
                          !.hitBefore = rows[1].cache_hit_count,
                          !.hitAfter = scraper_cache'[url].cache_hit_count,
                          !.hitEvents = monitor'.cacheMetrics.hits
                                          - monitor.cacheMetrics.hits]]
                  /\ UNCHANGED limiterVars
             ELSE WaitForRateLimitBegin(t, url,
                    [task[t] EXCEPT
                       !.lookup = IF rows = <<>> THEN "miss" ELSE "expired",
                       !.missEvents = @ + 1])
  /\ UNCHANGED <<now, options, calls, ready, scrapers, fetchLog, results>>

\* the RPC fails: get logs the error and resolves with null; scrape records
\* the miss
CacheGetFails(t) ==
  /\ task[t].pc = "cacheGet"
  /\ monitor' = recordCacheAccess(monitor, FALSE, FALSE)
  /\ WaitForRateLimitBegin(t, task[t].url,
       [task[t] EXCEPT !.lookup = "error", !.missEvents = @ + 1])
  /\ UNCHANGED <<now, options, calls, scraper_cache, ready, scrapers, fetchLog, results>>

\* DEFAULT_FETCH_OPTIONS.retries
DefaultRetries == 3

\* DEFAULT_FETCH_OPTIONS.retryDelay, 1000 ms: far below a tick
DefaultRetryDelay == 0

\* The continuation after `await globalRateLimiter.waitForRateLimit(url)`:
\* the wait is recorded when it was one (more than 10 ms, far below a tick)
\* and fetchPage issues the request: fetchWithRetry(url, {}) enters its
\* loop and calls fetch.
ScrapeFetches(t) ==
  /\ task[t].pc = "resolved"
  /\ task[t].kind = "scrape"
  /\ LET waitTime == now - task[t].calledAt
     IN monitor' = IF waitTime > 0 THEN recordRateLimit(monitor, waitTime)
                   ELSE monitor
  /\ fetchLog' = Append(SelectSeq(fetchLog,
                                   LAMBDA f : now - f[2] < options.windowMs),
                         <<task[t].url.host, now>>)
  /\ task' = [task EXCEPT ![t].pc = "fetching", ![t].fetches = @ + 1,
                          ![t].fnAt = now,
                          ![t].retries = DefaultRetries,
                          ![t].retryDelay = DefaultRetryDelay,
                          ![t].attemptsLeft = DefaultRetries,
                          ![t].attempts = 1]
  /\ UNCHANGED <<now, options, limiterVars, calls, scraper_cache, ready, scrapers, results>>

FetchFails_ClearsEntry(t) ==
  /\ task[t].pc = "fetching"
  /\ task' = [task EXCEPT ![t].pc = "failed", ![t].err = "FETCH_FAILED"]
  /\ monitor' = recordScrape(monitor, task[t].name, now - task[t].startTime,
                             TRUE, task[t].url)
  /\ scraper_cache' = [u \in DOMAIN scraper_cache \ {task[t].url} |->
                         scraper_cache[u]]
  /\ UNCHANGED <<now, options, limiterVars, calls, ready, scrapers,
                 fetchLog, results>>

\* fetchPage rejects (FETCH_FAILED); finally records the scrape
FetchFails(t) ==
  /\ task[t].pc = "fetching"
  /\ task' = [task EXCEPT ![t].pc = "failed", ![t].err = "FETCH_FAILED"]
  /\ monitor' = recordScrape(monitor, task[t].name, now - task[t].startTime,
                             TRUE, task[t].url)
  /\ UNCHANGED <<now, options, limiterVars, calls, scraper_cache, ready, scrapers,
                 fetchLog, results>>

\* fetchPage resolves with `page`: extraction, generic fallback, validation,
\* cleaning and stamping, then the cache write or the return
FetchReturns(t, page) ==
  /\ task[t].pc = "fetching"
  /\ LET url == task[t].url
         name == task[t].name
         extracted == extractWithFallback(name, parseHtml(page), url)
         data == stamp(cleanJobData(extracted), name, url)
         finally == recordScrape(monitor, name, now - task[t].startTime,
                                 TRUE, url)
     IN IF ~validateJobData(extracted)
          THEN /\ task' = [task EXCEPT ![t].pc = "failed",
                                       ![t].err = "EXTRACTION_FAILED",
                                       ![t].extracted = extracted,
                                       ![t].page = page]
               /\ monitor' = finally
        ELSE IF ~task[t].bypass_cache /\ ready
          THEN /\ task' = [task EXCEPT ![t].pc = "cacheSet", ![t].data = data,
                                       ![t].extracted = extracted,
                                       ![t].status = page.status,
                                       ![t].page = page]
               /\ UNCHANGED monitor
        ELSE /\ task' = [task EXCEPT ![t].pc = "done", ![t].data = data,
                                     ![t].extracted = extracted,
                                     ![t].status = page.status,
                                     ![t].page = page]
             /\ monitor' = finally
  /\ UNCHANGED <<now, options, limiterVars, calls, scraper_cache, ready, scrapers,
                 fetchLog, results>>

\* scraperCache.set resolves after upsert_scraper_cache ran; scrape returns
CacheSetReturns(t) ==
  /\ task[t].pc = "cacheSet"
  /\ LET url == task[t].url
         name == task[t].name
     IN /\ scraper_cache' =
             upsert_scraper_cache(scraper_cache, url, toJsonb(task[t].data),
                                  name, task[t].status,
                                  cacheOptions(name).ttl_hours, now)
        /\ results' = MapSet(results, url,
             [scraper |-> name, data |-> task[t].data, at |-> now,
              expires_at |-> scraper_cache'[url].expires_at])
        /\ monitor' = recordScrape(monitor, name, now - task[t].startTime,
                                   TRUE, url)
  /\ task' = [task EXCEPT ![t].pc = "done", ![t].writes = @ + 1,
                          ![t].wroteAt = now]
  /\ UNCHANGED <<now, options, limiterVars, calls, ready, scrapers, fetchLog>>

CacheSetFails_Throws(t) ==
  /\ task[t].pc = "cacheSet"
  /\ monitor' = recordScrape(monitor, task[t].name, now - task[t].startTime,
                             TRUE, task[t].url)
  /\ task' = [task EXCEPT ![t].pc = "failed", ![t].err = "CACHE_WRITE_FAILED",
                          ![t].data = NoData]
  /\ UNCHANGED <<now, options, limiterVars, calls, scraper_cache, ready, scrapers,
                 fetchLog, results>>

\* the RPC returns an error or rejects: set logs it and resolves with null;
\* scrape returns
CacheSetFails(t) ==
  /\ task[t].pc = "cacheSet"
  /\ monitor' = recordScrape(monitor, task[t].name, now - task[t].startTime,
                             TRUE, task[t].url)
  /\ task' = [task EXCEPT ![t].pc = "done"]
  /\ UNCHANGED <<now, options, limiterVars, calls, scraper_cache, ready, scrapers,
                 fetchLog, results>>

\* globalRateLimiter (per domain) and a ScraperCache that is ready or not
Init ==
  /\ InitRateLimiter({TRUE})
  /\ ready \in BOOLEAN

Next ==
  \/ \E t \in Tasks, url \in ScrapeUrls, name \in Scrapers, bypass \in BOOLEAN :
       ScrapeCall(t, url, name, bypass)
  \/ \E t \in Tasks : CacheGetReturns(t)
  \/ \E t \in Tasks : CacheGetFails(t)
  \/ \E t \in Tasks : TimerFires(t)
  \/ \E t \in Tasks : ScrapeFetches(t)
  \/ \E t \in Tasks : FetchFails(t)
  \/ \E t \in Tasks, page \in Pages : FetchReturns(t, page)
  \/ \E t \in Tasks : CacheSetReturns(t)
  \/ \E t \in Tasks : CacheSetFails(t)
  \/ \E t \in Tasks : TaskEnds(t)
  \/ Tick

Spec == Init /\ [][Next]_vars

\* the same engine with no cache: every scrape goes to the limiter
InitNoCache ==
  /\ InitRateLimiter({TRUE})
  /\ ready = FALSE

NextNoCache ==
  \/ \E t \in Tasks, url \in WaitUrls : ScrapeNoCache(t, url)
  \/ \E t \in Tasks : TimerFires(t)
  \/ \E t \in Tasks : ScrapeFetches(t)
  \/ \E t \in Tasks : FetchFails(t)
  \/ \E t \in Tasks, page \in Pages : FetchReturns(t, page)
  \/ \E t \in Tasks : TaskEnds(t)
  \/ Tick

SpecNoCache == InitNoCache /\ [][NextNoCache]_vars

\* the same engine, either strategy, on postings with a JSON-LD block
NextJsonLd ==
  \/ \E t \in Tasks, name \in Scrapers : ScrapeCall(t, UrlA1, name, FALSE)
  \/ \E t \in Tasks : TimerFires(t)
  \/ \E t \in Tasks : ScrapeFetches(t)
  \/ \E t \in Tasks : FetchFails(t)
  \/ \E t \in Tasks, page \in JsonLdPages : FetchReturns(t, page)
  \/ \E t \in Tasks : TaskEnds(t)
  \/ Tick

SpecJsonLd == InitNoCache /\ [][NextJsonLd]_vars

\* the same engine, either strategy, on postings the site's selectors cover
\* in full, in part or not at all
NextFallback ==
  \/ \E t \in Tasks, name \in Scrapers : ScrapeCall(t, UrlA1, name, FALSE)
  \/ \E t \in Tasks : TimerFires(t)
  \/ \E t \in Tasks : ScrapeFetches(t)
  \/ \E t \in Tasks : FetchFails(t)
  \/ \E t \in Tasks, page \in FallbackPages : FetchReturns(t, page)
  \/ \E t \in Tasks : TaskEnds(t)
  \/ Tick

SpecFallback == InitNoCache /\ [][NextFallback]_vars

----------------------------------------------------------------------------
(* Direct calls of the ScraperCache methods *)

\* records a caller hands to set
ContentX == Data(<<"Engineer">>, <<"Acme">>, <<"Build">>, UrlA1, "LinkedIn")
ContentY == Data(<<"Analyst">>, <<"Globex">>, <<"Plan">>, UrlA1, "Generic")
Contents == {ContentX, ContentY}

\* a call of a ScraperCache method by task t
CacheTask(method, url) ==
  [IdleTask EXCEPT !.kind = "cache", !.op = method, !.url = url,
                   !.calledAt = now, !.pc = "done",
                   !.hitBefore = IF url \in DOMAIN scraper_cache
                                   THEN scraper_cache[url].cache_hit_count
                                   ELSE 0]

\* scraperCache.get(url, { bypass_cache, update_hit_count }): null when the
\* cache is not ready, when bypass is asked for, when the RPC fails and when
\* there is no row; else the row the RPC returned
CacheGetCall(t, url, bypass, update, fails) ==
  /\ calls < MaxCacheCalls
  /\ FirstIdle(t)
  /\ calls' = calls + 1
  /\ LET runs == ready /\ ~bypass /\ ~fails
     IN /\ scraper_cache' =
             IF runs THEN get_scraper_cache_Store(scraper_cache, url, update, now)
             ELSE scraper_cache
        /\ task' = [task EXCEPT ![t] =
             [CacheTask("get", url) EXCEPT
                !.bypass_cache = bypass, !.update_hit_count = update,
                !.ok = runs,
                !.entry = IF runs THEN get_scraper_cache(scraper_cache, url, now)
                          ELSE <<>>]]
  /\ UNCHANGED <<now, options, limiterVars, ready, monitor, fetchLog, results,
                 scrapers>>

\* scraperCache.exists(url): the RPC without the hit count; false when the
\* cache is not ready, when the RPC fails and when there is no fresh row
CacheExistsCall(t, url, fails) ==
  /\ calls < MaxCacheCalls
  /\ FirstIdle(t)
  /\ calls' = calls + 1
  /\ LET runs == ready /\ ~fails
         rows == get_scraper_cache(scraper_cache, url, now)
     IN /\ scraper_cache' =
             IF runs THEN get_scraper_cache_Store(scraper_cache, url, FALSE, now)
             ELSE scraper_cache
        /\ task' = [task EXCEPT ![t] =
             [CacheTask("exists", url) EXCEPT
                !.ok = runs /\ rows # <<>> /\ ~rows[1].is_expired]]
  /\ UNCHANGED <<now, options, limiterVars, ready, monitor, fetchLog, results,
                 scrapers>>

CacheSetCall_IgnoresReady(t, url, content, name, fails) ==
  /\ calls < MaxCacheCalls
  /\ FirstIdle(t)
  /\ calls' = calls + 1
  /\ LET rec == [CacheTask("set", url) EXCEPT
                   !.data = content, !.name = name, !.status = 200,
                   !.err = IF fails THEN "RPC_FAILED" ELSE ""]
     IN IF ~fails
          THEN /\ scraper_cache' =
                    upsert_scraper_cache(scraper_cache, url, toJsonb(content),
                                         name, 200,
                                         cacheOptions(name).ttl_hours, now)
               /\ results' = MapSet(results, url,
                    [scraper |-> name, data |-> content, at |-> now,
                     expires_at |-> scraper_cache'[url].expires_at])
               /\ task' = [task EXCEPT ![t] =
                    [rec EXCEPT !.ok = TRUE, !.writes = 1, !.wroteAt = now]]
          ELSE /\ task' = [task EXCEPT ![t] = rec]
               /\ UNCHANGED <<scraper_cache, results>>
  /\ UNCHANGED <<now, options, limiterVars, ready, monitor, fetchLog, scrapers>>

\* scraperCache.set(url, content, scraperName, cacheOptions): null when the
\* cache is not ready or the RPC fails.  upsert_scraper_cache runs its
\* UPDATE; when that finds no row the INSERT is still to come.
CacheSetCall(t, url, content, name, fails) ==
  /\ calls < MaxCacheCalls
  /\ FirstIdle(t)
  /\ calls' = calls + 1
  /\ LET runs == ready /\ ~fails
         rec == [CacheTask("set", url) EXCEPT
                   !.data = content, !.name = name, !.status = 200,
                   !.err = IF ready /\ fails THEN "RPC_FAILED" ELSE ""]
     IN IF runs /\ url \in DOMAIN scraper_cache
          THEN /\ scraper_cache' =
                    upsert_scraper_cache(scraper_cache, url, toJsonb(content),
                                         name, 200,
                                         cacheOptions(name).ttl_hours, now)
               /\ results' = MapSet(results, url,
                    [scraper |-> name, data |-> content, at |-> now,
                     expires_at |-> scraper_cache'[url].expires_at])
               /\ task' = [task EXCEPT ![t] =
                    [rec EXCEPT !.ok = TRUE, !.writes = 1, !.wroteAt = now]]
        ELSE /\ task' = [task EXCEPT ![t] =
                  [rec EXCEPT !.pc = IF runs THEN "inserting" ELSE "done"]]
             /\ UNCHANGED <<scraper_cache, results>>
  /\ UNCHANGED <<now, options, limiterVars, ready, monitor, fetchLog, scrapers>>

\* the INSERT of upsert_scraper_cache: url is UNIQUE, so it raises when a row
\* of the URL has appeared since the UPDATE, and set resolves with null
CacheSetInserts(t) ==
  /\ task[t].pc = "inserting"
  /\ LET url == task[t].url
         name == task[t].name
     IN IF url \in DOMAIN scraper_cache
          THEN /\ task' = [task EXCEPT ![t].pc = "done", ![t].ok = FALSE,
                                       ![t].err = "UNIQUE_VIOLATION"]
               /\ UNCHANGED <<scraper_cache, results>>
          ELSE /\ scraper_cache' =
                    upsert_scraper_cache(scraper_cache, url,
                                         toJsonb(task[t].data), name,
                                         task[t].status,
                                         cacheOptions(name).ttl_hours, now)
               /\ results' = MapSet(results, url,
                    [scraper |-> name, data |-> task[t].data, at |-> now,
                     expires_at |-> scraper_cache'[url].expires_at])
               /\ task' = [task EXCEPT ![t].pc = "done", ![t].ok = TRUE,
                                       ![t].writes = 1, ![t].wroteAt = now]
  /\ UNCHANGED <<now, options, limiterVars, calls, ready, monitor, fetchLog,
                 scrapers>>

\* a ScraperCache with or without its credentials, nothing stored yet
InitCache ==
  /\ InitRateLimiter({TRUE})
  /\ options.requestsPerMinute = MaxLimit
  /\ options.windowMs = MaxWindow
  /\ ready \in BOOLEAN

NextCache ==
  \/ \E t \in Tasks, url \in WaitUrls, bypass \in BOOLEAN, update \in BOOLEAN,
        fails \in BOOLEAN : CacheGetCall(t, url, bypass, update, fails)
  \/ \E t \in Tasks, url \in WaitUrls, fails \in BOOLEAN :
       CacheExistsCall(t, url, fails)
  \/ \E t \in Tasks, url \in WaitUrls, content \in Contents, name \in Scrapers,
        fails \in BOOLEAN : CacheSetCall(t, url, content, name, fails)
  \/ \E t \in Tasks : CacheSetInserts(t)
  \/ \E t \in Tasks : TaskEnds(t)
  \/ Tick

SpecCache == InitCache /\ [][NextCache]_vars

\* get_scraper_cache statement by statement, for gets that run side by
\* side.  scraperCache.get(url, { update_hit_count }) on a ready cache: the
\* RPC starts and its RETURN QUERY reads the row; the UPDATE is still to come.
CacheGetSelects(t, url, update) ==
  /\ calls < MaxCacheCalls
  /\ FirstIdle(t)
  /\ ready
  /\ calls' = calls + 1
  /\ task' = [task EXCEPT ![t] =
       [CacheTask("get", url) EXCEPT
          !.pc = "updating", !.update_hit_count = update, !.ok = TRUE,
          !.entry = get_scraper_cache(scraper_cache, url, now)]]
  /\ UNCHANGED <<now, options, limiterVars, engineVars>>

CacheGetUpdates_FromRead(t) ==
  /\ task[t].pc = "updating"
  /\ LET url == task[t].url
     IN scraper_cache' =
          IF task[t].update_hit_count /\ url \in DOMAIN scraper_cache
               /\ task[t].entry # <<>>
            THEN MapSet(scraper_cache, url,
                   [scraper_cache[url] EXCEPT
                      !.cache_hit_count = task[t].entry[1].cache_hit_count + 1,
                      !.updated_at = now])
            ELSE scraper_cache
  /\ task' = [task EXCEPT ![t].pc = "done"]
  /\ UNCHANGED <<now, options, limiterVars, calls, ready, monitor, fetchLog,
                 results, scrapers>>

\* the UPDATE of get_scraper_cache, on the row as it is now; get resolves
CacheGetUpdates(t) ==
  /\ task[t].pc = "updating"
  /\ scraper_cache' = get_scraper_cache_Store(scraper_cache, task[t].url,
                                              task[t].update_hit_count, now)
  /\ task' = [task EXCEPT ![t].pc = "done"]
  /\ UNCHANGED <<now, options, limiterVars, calls, ready, monitor, fetchLog,
                 results, scrapers>>

\* a ready ScraperCache, nothing stored yet
InitHitCount ==
  /\ InitRateLimiter({TRUE})
  /\ options.requestsPerMinute = MaxLimit
  /\ options.windowMs = MaxWindow
  /\ ready = TRUE

NextHitCount ==
  \/ \E t \in Tasks, url \in WaitUrls, update \in BOOLEAN :
       CacheGetSelects(t, url, update)
  \/ \E t \in Tasks : CacheGetUpdates(t)
  \/ \E t \in Tasks, url \in WaitUrls, content \in Contents, name \in Scrapers :
       CacheSetCall(t, url, content, name, FALSE)
  \/ \E t \in Tasks : CacheSetInserts(t)
  \/ \E t \in Tasks : TaskEnds(t)
  \/ Tick

SpecHitCount == InitHitCount /\ [][NextHitCount]_vars

\* upsert_scraper_cache statement by statement inside scrape, for scrapes
\* of one URL that run side by side.  scraperCache.set started the RPC: its
\* UPDATE overwrites the row and scrape returns, or finds none and the
\* INSERT is still to come.
ScrapeSetUpdates(t) ==
  /\ task[t].pc = "cacheSet"
  /\ LET url == task[t].url
         name == task[t].name
     IN IF url \in DOMAIN scraper_cache
          THEN /\ scraper_cache' =
                    upsert_scraper_cache(scraper_cache, url,
                                         toJsonb(task[t].data), name,
                                         task[t].status,
                                         cacheOptions(name).ttl_hours, now)
               /\ results' = MapSet(results, url,
                    [scraper |-> name, data |-> task[t].data, at |-> now,
                     expires_at |-> scraper_cache'[url].expires_at])
               /\ monitor' = recordScrape(monitor, name,
                                          now - task[t].startTime, TRUE, url)
               /\ task' = [task EXCEPT ![t].pc = "done", ![t].ok = TRUE,
                                       ![t].writes = @ + 1,
                                       ![t].wroteAt = now]
        ELSE /\ task' = [task EXCEPT ![t].pc = "inserting"]
             /\ UNCHANGED <<scraper_cache, results, monitor>>
  /\ UNCHANGED <<now, options, limiterVars, calls, ready, scrapers, fetchLog>>

ScrapeSetInserts_Throws(t) ==
  /\ task[t].pc = "inserting"
  /\ task[t].kind = "scrape"
  /\ LET url == task[t].url
         name == task[t].name
     IN /\ monitor' = recordScrape(monitor, name, now - task[t].startTime,
                                   TRUE, url)
        /\ IF url \in DOMAIN scraper_cache
             THEN /\ task' = [task EXCEPT ![t].pc = "failed",
                                          ![t].err = "UNIQUE_VIOLATION",
                                          ![t].data = NoData]
                  /\ UNCHANGED <<scraper_cache, results>>
           ELSE /\ scraper_cache' =
                     upsert_scraper_cache(scraper_cache, url,
                                          toJsonb(task[t].data), name,
                                          task[t].status,
                                          cacheOptions(name).ttl_hours, now)
                /\ results' = MapSet(results, url,
                     [scraper |-> name, data |-> task[t].data, at |-> now,
                      expires_at |-> scraper_cache'[url].expires_at])
                /\ task' = [task EXCEPT ![t].pc = "done", ![t].ok = TRUE,
                                        ![t].writes = @ + 1,
                                        ![t].wroteAt = now]
  /\ UNCHANGED <<now, options, limiterVars, calls, ready, scrapers, fetchLog>>

\* the INSERT of upsert_scraper_cache inside scrape: url is UNIQUE, so it
\* raises when the other scrape's row has appeared since the UPDATE; set
\* logs the error and resolves with null, and scrape returns its record
ScrapeSetInserts(t) ==
  /\ task[t].pc = "inserting"
  /\ task[t].kind = "scrape"
  /\ LET url == task[t].url
         name == task[t].name
     IN /\ monitor' = recordScrape(monitor, name, now - task[t].startTime,
                                   TRUE, url)
        /\ IF url \in DOMAIN scraper_cache
             THEN /\ task' = [task EXCEPT ![t].pc = "done", ![t].ok = FALSE,
                                          ![t].lastError = "UNIQUE_VIOLATION"]
                  /\ UNCHANGED <<scraper_cache, results>>
           ELSE /\ scraper_cache' =
                     upsert_scraper_cache(scraper_cache, url,
                                          toJsonb(task[t].data), name,
                                          task[t].status,
                                          cacheOptions(name).ttl_hours, now)
                /\ results' = MapSet(results, url,
                     [scraper |-> name, data |-> task[t].data, at |-> now,
                      expires_at |-> scraper_cache'[url].expires_at])
                /\ task' = [task EXCEPT ![t].pc = "done", ![t].ok = TRUE,
                                        ![t].writes = @ + 1,
                                        ![t].wroteAt = now]
  /\ UNCHANGED <<now, options, limiterVars, calls, ready, scrapers, fetchLog>>

\* postings that give different records
RacePages == {PageFull, PageOther}

\* a ready cache with nothing stored, and scrapes of one URL
InitRace ==
  /\ InitRateLimiter({TRUE})
  /\ ready = TRUE

NextRace ==
  \/ \E t \in Tasks, name \in Scrapers : ScrapeCall(t, UrlA1, name, FALSE)
  \/ \E t \in Tasks : CacheGetReturns(t)
  \/ \E t \in Tasks : CacheGetFails(t)
  \/ \E t \in Tasks : TimerFires(t)
  \/ \E t \in Tasks : ScrapeFetches(t)
  \/ \E t \in Tasks : FetchFails(t)
  \/ \E t \in Tasks, page \in RacePages : FetchReturns(t, page)
  \/ \E t \in Tasks : ScrapeSetUpdates(t)
  \/ \E t \in Tasks : ScrapeSetInserts(t)
  \/ \E t \in Tasks : CacheSetFails(t)
  \/ \E t \in Tasks : TaskEnds(t)
  \/ Tick

SpecRace == InitRace /\ [][NextRace]_vars

\* A ScraperCache built without its credentials (ready is false for good),
\* behind a limiter of one request per window, over a table that is empty or holds the row an earlier, configured run
\* stored for UrlA1
SeededCache ==
  upsert_scraper_cache(<<>>, UrlA1, toJsonb(ContentX), "LinkedIn", 200,
                       cacheOptions("LinkedIn").ttl_hours, 0)

InitNotReady ==
  /\ now = 0
  /\ options = [requestsPerMinute |-> 1, windowMs |-> MaxWindow,
                perDomain |-> TRUE]
  /\ requestTimestamps = <<>>
  /\ admitLog = <<>>
  /\ lastCall = NoCall
  /\ task = [t \in Tasks |-> IdleTask]
  /\ calls = 0
  /\ monitor = NewMonitor
  /\ fetchLog = <<>>
  /\ scrapers = <<>>
  /\ ready = FALSE
  /\ \/ scraper_cache = <<>> /\ results = <<>>
     \/ /\ scraper_cache = SeededCache
        /\ results = MapSet(<<>>, UrlA1,
             [scraper |-> "LinkedIn", data |-> ContentX, at |-> 0,
              expires_at |-> SeededCache[UrlA1].expires_at])

NextNotReady ==
  \/ \E t \in Tasks, url \in WaitUrls, bypass \in BOOLEAN, update \in BOOLEAN,
        fails \in BOOLEAN : CacheGetCall(t, url, bypass, update, fails)
  \/ \E t \in Tasks, url \in WaitUrls, fails \in BOOLEAN :
       CacheExistsCall(t, url, fails)
  \/ \E t \in Tasks, url \in WaitUrls, content \in Contents, name \in Scrapers,
        fails \in BOOLEAN : CacheSetCall(t, url, content, name, fails)
  \/ \E t \in Tasks, url \in WaitUrls : ScrapeNoCache(t, url)
  \/ \E t \in Tasks : TimerFires(t)
  \/ \E t \in Tasks : ScrapeFetches(t)
  \/ \E t \in Tasks : FetchFails(t)
  \/ \E t \in Tasks, page \in Pages : FetchReturns(t, page)
  \/ \E t \in Tasks : TaskEnds(t)
  \/ Tick

SpecNotReady == InitNotReady /\ [][NextNotReady]_vars

----------------------------------------------------------------------------
(* ScraperFactory *)

MaxRegistered == 3
MaxLookups == 2

\* the strategies the constructor registers, in its order
DefaultScrapers ==
  <<"LinkedIn", "Greenhouse", "Workday", "Busey", "Indeed", "Glassdoor">>

\* the strategies a caller registers on an empty factory
Registrable == {"LinkedIn", "Greenhouse", "Workday"}

UrlG == Url("boards.greenhouse.io", <<"acme", "jobs", "1">>)
UrlGL == Url("boards.greenhouse.io", <<"linkedin.com", "jobs", "1">>)
UrlI == Url("indeed.com", <<"viewjob">>)
FactoryUrls == {UrlA1, UrlB1, UrlG, UrlGL, UrlI, BadUrl}

\* this.scrapers.findIndex(s => s.canHandle(url)) from position i on, 0 when
\* none is found
RECURSIVE findFrom(_, _, _)
findFrom(list, url, i) ==
  IF i > Len(list) THEN 0
  ELSE IF canHandle(list[i], url) THEN i
  ELSE findFrom(list, url, i + 1)

\* the strategies whose canHandle ran during this.scrapers.find(..)
consultedBy(list, url) ==
  LET i == findFrom(list, url, 1)
  IN IF i = 0 THEN list ELSE SubSeq(list, 1, i)

getScraper_LastMatch(list, url) ==
  LET hits == {i \in 1..Len(list) : canHandle(list[i], url)}
  IN IF hits = {} THEN "Generic"
     ELSE list[CHOOSE i \in hits : \A j \in hits : j <= i]

\* getScraper(url): this.scrapers.find(s => s.canHandle(url)) || genericScraper
getScraper(list, url) ==
  LET i == findFrom(list, url, 1)
  IN IF i = 0 THEN "Generic" ELSE list[i]

\* register(scraper)
Register(name) ==
  /\ Len(scrapers) < MaxRegistered
  /\ scrapers' = Append(scrapers, name)
  /\ UNCHANGED <<now, options, limiterVars, task, calls, scraper_cache, ready,
                 monitor, fetchLog, results>>

\* factory.getScraper(url), called by task t
GetScraperCall(t, url) ==
  /\ calls < MaxLookups
  /\ FirstIdle(t)
  /\ calls' = calls + 1
  /\ task' = [task EXCEPT ![t] =
       [IdleTask EXCEPT !.kind = "factory", !.op = "getScraper", !.url = url,
                        !.calledAt = now, !.pc = "done",
                        !.name = getScraper(scrapers, url),
                        !.consulted = consultedBy(scrapers, url)]]
  /\ UNCHANGED <<now, options, limiterVars, engineVars>>

\* scraper.canHandle(url) of the strategy `name`, called by task t
CanHandleCall(t, name, url) ==
  /\ calls < MaxLookups
  /\ FirstIdle(t)
  /\ calls' = calls + 1
  /\ task' = [task EXCEPT ![t] =
       [IdleTask EXCEPT !.kind = "strategy", !.op = "canHandle", !.url = url,
                        !.calledAt = now, !.pc = "done", !.name = name,
                        !.ok = canHandle(name, url)]]
  /\ UNCHANGED <<now, options, limiterVars, engineVars>>

\* a factory as its constructor leaves it: with the six strategies, or (the
\* other constructor) with none
InitFactory ==
  /\ now = 0
  /\ options = [requestsPerMinute |-> MaxLimit, windowMs |-> MaxWindow,
                perDomain |-> TRUE]
  /\ requestTimestamps = <<>>
  /\ admitLog = <<>>
  /\ lastCall = NoCall
  /\ task = [t \in Tasks |-> IdleTask]
  /\ calls = 0
  /\ scraper_cache = <<>>
  /\ monitor = NewMonitor
  /\ fetchLog = <<>>
  /\ results = <<>>
  /\ ready = FALSE
  /\ scrapers \in {<<>>, DefaultScrapers}

NextFactory ==
  \/ \E name \in Registrable : Register(name)
  \/ \E t \in Tasks, url \in FactoryUrls : GetScraperCall(t, url)
  \/ \E t \in Tasks, name \in Scrapers, url \in FactoryUrls :
       CanHandleCall(t, name, url)
  \/ \E t \in Tasks : TaskEnds(t)

SpecFactory == InitFactory /\ [][NextFactory]_vars

----------------------------------------------------------------------------
(* fetchWithRetry(url, { retries, retryDelay }) *)

MaxRetries == 3
MaxRetryDelay == 2
MaxFetchTime == 10
MaxFetchCalls == 2

\* what one fetch(url) can come to: a 2xx response, another status, or a
\* rejection
FetchOutcomes == {"ok", "status", "network"}

attemptsAtStart_OneMore(retries) == retries + 1

\* let attemptsLeft = retries
attemptsAtStart(retries) == retries

backoffDelay_Constant(retryDelay, retries, attemptsLeft) == retryDelay

\* retryDelay * (retries - attemptsLeft + 1), attemptsLeft already counted
\* down for the attempt that failed
backoffDelay(retryDelay, retries, attemptsLeft) ==
  retryDelay * (retries - attemptsLeft + 1)

\* the error thrown once the attempts are used up
fetchFailedError(lastError) ==
  [code |-> "FETCH_FAILED",
   message |-> "Failed to fetch the job posting after {retries} attempts",
   technicalDetails |-> IF lastError = "" THEN "Unknown error" ELSE lastError,
   suggestion |-> "The site may be blocking automated requests. Try accessing the page directly in your browser."]

\* The call, up to its first await: the loop is entered and fetch called
\* when attemptsLeft > 0, else the error is thrown at once.
FetchWithRetryCall(t, url, retries, retryDelay) ==
  /\ calls < MaxFetchCalls
  /\ FirstIdle(t)
  /\ calls' = calls + 1
  /\ LET rec == [IdleTask EXCEPT
                   !.kind = "fetch", !.url = url, !.calledAt = now,
                   !.retries = retries, !.retryDelay = retryDelay,
                   !.attemptsLeft = attemptsAtStart(retries)]
     IN task' = [task EXCEPT ![t] =
          IF rec.attemptsLeft > 0
            THEN [rec EXCEPT !.pc = "attempting", !.attempts = 1,
                             !.attemptAt = <<now>>]
            ELSE [rec EXCEPT !.pc = "failed", !.err = "FETCH_FAILED",
                             !.error = fetchFailedError("")]]
  /\ UNCHANGED <<now, options, limiterVars, engineVars>>

AttemptSettles_RetriesOnSuccess(t, outcome) ==
  /\ task[t].pc = "attempting"
  /\ task[t].kind = "fetch"
  /\ LET left == task[t].attemptsLeft - 1
         delay == backoffDelay(task[t].retryDelay, task[t].retries, left)
     IN task' = [task EXCEPT ![t] =
          IF left > 0
            THEN [task[t] EXCEPT !.pc = "backoff", !.attemptsLeft = left,
                                 !.wakeAt = now + delay,
                                 !.delays = Append(@, delay)]
            ELSE [task[t] EXCEPT !.pc = "done", !.status = 200,
                                 !.attemptsLeft = left]]
  /\ UNCHANGED <<now, options, limiterVars, calls, engineVars>>

\* `await fetch(..)` settles: a 2xx response is returned; anything else is
\* caught, attemptsLeft counted down and, when attempts are left, the
\* backoff timer set; the loop ends and the error is thrown when none is
AttemptSettles(t, outcome) ==
  /\ task[t].pc = "attempting"
  /\ task[t].kind = "fetch"
  /\ LET left == task[t].attemptsLeft - 1
         lastError == IF outcome = "status"
                        THEN "Failed to fetch page (Status: {status})"
                        ELSE "network error"
         delay == backoffDelay(task[t].retryDelay, task[t].retries, left)
     IN task' = [task EXCEPT ![t] =
          IF outcome = "ok"
            THEN [task[t] EXCEPT !.pc = "done", !.status = 200]
          ELSE IF left > 0
            THEN [task[t] EXCEPT !.pc = "backoff", !.attemptsLeft = left,
                                 !.lastError = lastError,
                                 !.wakeAt = now + delay,
                                 !.delays = Append(@, delay)]
          ELSE [task[t] EXCEPT !.pc = "failed", !.attemptsLeft = left,
                               !.lastError = lastError,
                               !.err = "FETCH_FAILED",
                               !.error = fetchFailedError(lastError)]]
  /\ UNCHANGED <<now, options, limiterVars, calls, engineVars>>

\* The backoff timer of task t fires, the earliest one pending, and the loop
\* calls fetch again.  A fetch settles in less than a tick, so no time
\* passes while one is awaited.
BackoffEnds(t) ==
  /\ task[t].pc = "backoff"
  /\ task[t].wakeAt <= MaxFetchTime
  /\ \A u \in Tasks :
       /\ task[u].pc \notin {"attempting", "done", "failed"}
       /\ task[u].pc = "backoff" => task[u].wakeAt >= task[t].wakeAt
  /\ now' = Max(now, task[t].wakeAt)
  /\ task' = [task EXCEPT ![t].pc = "attempting", ![t].attempts = @ + 1,
                          ![t].attemptAt = Append(@, now')]
  /\ UNCHANGED <<options, limiterVars, calls, engineVars>>

InitFetch ==
  /\ InitRateLimiter({TRUE})
  /\ options.requestsPerMinute = MaxLimit
  /\ options.windowMs = MaxWindow
  /\ ready = FALSE

NextFetch ==
  \/ \E t \in Tasks, url \in WaitUrls, retries \in 0..MaxRetries,
        retryDelay \in 1..MaxRetryDelay :
       FetchWithRetryCall(t, url, retries, retryDelay)
  \/ \E t \in Tasks, outcome \in FetchOutcomes : AttemptSettles(t, outcome)
  \/ \E t \in Tasks : BackoffEnds(t)
  \/ \E t \in Tasks : TaskEnds(t)

SpecFetch == InitFetch /\ [][NextFetch]_vars

----------------------------------------------------------------------------
(* The HTTP entry points: the handler of index.ts, which routes to its own *)
(* scraper functions, and the handler of index.new.ts, which resolves a    *)
(* strategy through the factory and calls its scrape.                      *)

MaxRequests == 2

\* the `url` of a request body: none, a malformed one, the blocked domain,
\* a LinkedIn posting, a posting of an unknown site
NoUrl == [valid |-> FALSE, host |-> "", path |-> <<>>]
RequestUrls == {NoUrl, BadUrl, UrlI, UrlA1, UrlB1}

\* the pages a request's scrape is served
RequestPages == {PageFull, PageBlank}

includes_Never(url, piece) == FALSE

\* url.includes(piece)
includes(url, piece) ==
  \E i \in 1..Len(UrlText(url)) : piece \in Pieces(UrlText(url)[i])

\* An error message is the sequence of its parts.
InvalidUrlFormat ==
  <<"Invalid URL format. Please provide a valid job posting URL.">>

\* `${error.message}\n\nGeneric scraper also failed: ${genericError.message}`
bothMessages(message, genericMessage) ==
  message \o <<"Generic scraper also failed">> \o genericMessage

\* { error: 'URL is required' }, status 400
urlRequired ==
  [NoResponse EXCEPT !.status = 400, !.error = "URL is required"]

\* { error, message, type: 'UNSUPPORTED_PLATFORM' }
unsupportedPlatform(status) ==
  [NoResponse EXCEPT
     !.status = status,
     !.error = "Indeed URLs are not supported",
     !.message = "Due to Indeed's security measures, we cannot automatically fetch job details from Indeed. Please try one of these alternatives",
     !.type = "UNSUPPORTED_PLATFORM"]

failedToScrape_NoSuggestion(details) ==
  [NoResponse EXCEPT !.status = 500,
                     !.error = "Failed to scrape job details",
                     !.details = details]

\* { error: 'Failed to scrape job details', details, suggestion }, status 500
failedToScrape(details) ==
  [NoResponse EXCEPT
     !.status = 500,
     !.error = "Failed to scrape job details",
     !.details = details,
     !.suggestion = "Please ensure the URL is accessible and points to a public job posting page. If the issue persists, try entering the job details manually."]

\* the scraped record, status 200
jobDataResponse(data) == [NoResponse EXCEPT !.status = 200, !.data = data]

\* the message of the error a scrape threw: the JSON text of a ScraperError
\* for FETCH_FAILED, plain text otherwise
scrapeErrorMessage(err) == <<err>>

\* The catch of the index.new.ts handler: a message that parses as JSON is
\* the body, any other message goes into the standard body; status 500.
errorResponse(message) ==
  IF message = <<"UNSUPPORTED_PLATFORM">> THEN unsupportedPlatform(500)
  ELSE IF message = <<"FETCH_FAILED">>
    THEN LET e == fetchFailedError("")
         IN [NoResponse EXCEPT
               !.status = 500, !.code = e.code, !.message = e.message,
               !.technicalDetails = e.technicalDetails,
               !.suggestion = e.suggestion]
  ELSE failedToScrape(message)

\* index.ts: the scraper function the URL is routed to
legacyScraper(url) ==
  IF includes(url, "linkedin.com") THEN "linkedin"
  ELSE IF includes(url, "greenhouse.io") THEN "greenhouse"
  ELSE IF includes(url, "workday.com") THEN "workday"
  ELSE IF includes(url, "busey.com") THEN "busey"
  ELSE "generic"

\* what a scraper function of index.ts returns: { title, company,
\* description }, each trimmed and not empty
LegacyRecords ==
  {Data(<<"Senior", " ", " ", "Engineer">>, <<"Acme">>, <<"Build">>,
        BadUrl, "")}

\* what a scraper function of index.ts throws
LegacyErrors ==
  {<<"Failed to fetch page">>, <<"Could not find all required job details">>}

\* index.ts, the handler up to its first await
ServeIndex(t, url) ==
  /\ calls < MaxRequests
  /\ FirstIdle(t)
  /\ calls' = calls + 1
  /\ LET rec == [IdleTask EXCEPT !.kind = "request", !.handler = "index.ts",
                                 !.url = url, !.calledAt = now]
     IN task' = [task EXCEPT ![t] =
          IF url = NoUrl
            THEN [rec EXCEPT !.pc = "responded", !.resp = urlRequired]
          ELSE IF ~isValidUrl(url)
            THEN [rec EXCEPT !.pc = "responded",
                             !.errors = <<InvalidUrlFormat>>,
                             !.resp = failedToScrape(InvalidUrlFormat)]
          ELSE IF includes(url, "indeed.com")
            THEN [rec EXCEPT !.pc = "responded",
                             !.resp = unsupportedPlatform(422)]
          ELSE [rec EXCEPT !.pc = "scraping", !.scraperUsed = "generic",
                           !.name = legacyScraper(url),
                           !.tried = <<legacyScraper(url)>>]]
  /\ UNCHANGED <<now, options, limiterVars, engineVars>>

\* index.ts: the awaited scraper function returns `data`.  In the try block
\* scraperUsed is assigned after the await; the record is cleaned up and sent.
LegacyScraperReturns(t, data) ==
  /\ task[t].pc = "scraping"
  /\ task[t].handler = "index.ts"
  /\ task' = [task EXCEPT ![t] =
       [task[t] EXCEPT
          !.pc = "responded",
          !.scraperUsed = IF Len(task[t].tried) = 1 THEN task[t].name ELSE @,
          !.data = data,
          !.resp = jobDataResponse(cleanJobData(data))]]
  /\ UNCHANGED <<now, options, limiterVars, calls, engineVars>>

\* index.ts: the awaited scraper function throws `message`.  In the try
\* block the catch tests scraperUsed and either awaits scrapeGeneric or
\* rethrows; an error of that scrapeGeneric is thrown with both messages.
\* What is thrown reaches the outer catch and is answered with status 500.
LegacyScraperThrows(t, message) ==
  /\ task[t].pc = "scraping"
  /\ task[t].handler = "index.ts"
  /\ task' = [task EXCEPT ![t] =
       IF Len(task[t].tried) = 1
         THEN IF task[t].scraperUsed # "generic"
                THEN [task[t] EXCEPT !.name = "generic",
                                     !.tried = Append(@, "generic"),
                                     !.errors = <<message>>]
                ELSE [task[t] EXCEPT !.pc = "responded",
                                     !.errors = <<message>>,
                                     !.resp = failedToScrape(message)]
         ELSE [task[t] EXCEPT
                 !.pc = "responded",
                 !.errors = Append(@, message),
                 !.resp = failedToScrape(
                            bothMessages(task[t].errors[1], message))]]
  /\ UNCHANGED <<now, options, limiterVars, calls, engineVars>>

\* index.new.ts: the handler and scrapeJobPosting up to the first await, the
\* one of scraper.scrape(url)
ServeIndexNew(t, url) ==
  /\ calls < MaxRequests
  /\ FirstIdle(t)
  /\ calls' = calls + 1
  /\ LET rec == [IdleTask EXCEPT !.kind = "request",
                                 !.handler = "index.new.ts",
                                 !.url = url, !.calledAt = now]
         scraper == getScraper(scrapers, url)
     IN IF url = NoUrl
          THEN /\ task' = [task EXCEPT ![t] =
                    [rec EXCEPT !.pc = "responded", !.resp = urlRequired]]
               /\ UNCHANGED limiterVars
        ELSE IF ~isValidUrl(url)
          THEN /\ task' = [task EXCEPT ![t] =
                    [rec EXCEPT !.pc = "responded",
                                !.errors = <<InvalidUrlFormat>>,
                                !.resp = errorResponse(InvalidUrlFormat)]]
               /\ UNCHANGED limiterVars
        ELSE IF includes(url, "indeed.com")
          THEN /\ task' = [task EXCEPT ![t] =
                    [rec EXCEPT !.pc = "responded",
                                !.errors = <<<<"UNSUPPORTED_PLATFORM">>>>,
                                !.resp = errorResponse(
                                           <<"UNSUPPORTED_PLATFORM">>)]]
               /\ UNCHANGED limiterVars
        ELSE ScrapeBegin(t, url, scraper, FALSE,
               [rec EXCEPT !.tried = <<scraper>>,
                           !.consulted = consultedBy(scrapers, url)])
  /\ UNCHANGED <<engineVars, now, options>>

\* index.new.ts: the awaited scrape settles.  A record is cleaned and sent;
\* an error of a strategy other than the generic one starts, once,
\* new GenericScraper().scrape(url); an error of that scrape is thrown with
\* both messages and an error of the generic strategy as it is.  What is
\* thrown reaches the handler's catch.
ScrapeJobPostingSettles(t) ==
  /\ task[t].pc \in {"done", "failed"}
  /\ task[t].handler = "index.new.ts"
  /\ LET message == scrapeErrorMessage(task[t].err)
     IN IF task[t].pc = "done"
          THEN /\ task' = [task EXCEPT ![t] =
                    [task[t] EXCEPT
                       !.pc = "responded",
                       !.resp = jobDataResponse(cleanJobData(task[t].data))]]
               /\ UNCHANGED limiterVars
        ELSE IF Len(task[t].tried) = 1 /\ task[t].name # "Generic"
          THEN ScrapeBegin(t, task[t].url, "Generic", FALSE,
                 [IdleTask EXCEPT !.handler = task[t].handler,
                                  !.consulted = task[t].consulted,
                                  !.tried = Append(task[t].tried, "Generic"),
                                  !.errors = <<message>>,
                                  !.spentAttempts = task[t].attempts,
                                  !.spentWaits = task[t].slots])
        ELSE IF Len(task[t].tried) = 2
          THEN /\ task' = [task EXCEPT ![t] =
                    [task[t] EXCEPT
                       !.pc = "responded",
                       !.errors = Append(@, message),
                       !.resp = errorResponse(
                                  bothMessages(task[t].errors[1], message))]]
               /\ UNCHANGED limiterVars
        ELSE /\ task' = [task EXCEPT ![t] =
                  [task[t] EXCEPT !.pc = "responded",
                                  !.errors = <<message>>,
                                  !.resp = errorResponse(message)]]
             /\ UNCHANGED limiterVars
  /\ UNCHANGED <<engineVars, now, options, calls>>

\* new ScraperFactory().register(..): the four strategies index.new.ts
\* registers, after those of the constructor when it registers any
RegisteredScrapers == <<"LinkedIn", "Greenhouse", "Workday", "Busey">>

InitHandler ==
  /\ now = 0
  /\ options = [requestsPerMinute |-> 1, windowMs |-> MaxWindow,
                perDomain |-> TRUE]
  /\ requestTimestamps = <<>>
  /\ admitLog = <<>>
  /\ lastCall = NoCall
  /\ task = [t \in Tasks |-> IdleTask]
  /\ calls = 0
  /\ scraper_cache = <<>>
  /\ monitor = NewMonitor
  /\ fetchLog = <<>>
  /\ results = <<>>
  /\ ready \in BOOLEAN
  /\ scrapers \in {RegisteredScrapers, DefaultScrapers \o RegisteredScrapers}

NextHandler ==
  \/ \E t \in Tasks, url \in RequestUrls : ServeIndex(t, url)
  \/ \E t \in Tasks, data \in LegacyRecords : LegacyScraperReturns(t, data)
  \/ \E t \in Tasks, message \in LegacyErrors : LegacyScraperThrows(t, message)
  \/ \E t \in Tasks, url \in RequestUrls : ServeIndexNew(t, url)
  \/ \E t \in Tasks : ScrapeJobPostingSettles(t)
  \/ \E t \in Tasks, url \in ScrapeUrls, name \in Scrapers :
       ScrapeCall(t, url, name, FALSE)
  \/ \E t \in Tasks : CacheGetReturns(t)
  \/ \E t \in Tasks : CacheGetFails(t)
  \/ \E t \in Tasks : TimerFires(t)
  \/ \E t \in Tasks : ScrapeFetches(t)
  \/ \E t \in Tasks : FetchFails(t)
  \/ \E t \in Tasks, page \in RequestPages : FetchReturns(t, page)
  \/ \E t \in Tasks : CacheSetReturns(t)
  \/ \E t \in Tasks : CacheSetFails(t)
  \/ \E t \in Tasks : TaskEnds(t)
  \/ Tick

SpecHandler == InitHandler /\ [][NextHandler]_vars

FetchAttemptFails_NoCountdown(t) ==
  /\ task[t].pc = "fetching"
  /\ task[t].attemptsLeft > 1
  /\ task[t].attempts < 2 * DefaultRetries + 1
  /\ task' = [task EXCEPT ![t].attempts = @ + 1]
  /\ UNCHANGED <<now, options, limiterVars, calls, engineVars>>

\* fetchWithRetry inside fetchPage, attempt by attempt.  An attempt that is
\* not the last one fails: attemptsLeft is counted down and, the backoff
\* over within the tick, fetch is called again.
FetchAttemptFails(t) ==
  /\ task[t].pc = "fetching"
  /\ task[t].attemptsLeft > 1
  /\ task' = [task EXCEPT ![t].attemptsLeft = @ - 1,
                          ![t].attempts = @ + 1]
  /\ UNCHANGED <<now, options, limiterVars, calls, engineVars>>

\* the last attempt fails: the loop ends and fetchPage rejects
FetchPageFails(t) ==
  /\ task[t].attemptsLeft = 1
  /\ FetchFails(t)

\* index.new.ts over a ScraperCache that is ready or not; its factory holds
\* the strategies the module registers
InitRequest ==
  /\ InitHandler
  /\ scrapers = RegisteredScrapers

\* requests to index.new.ts alone, their fetches attempt by attempt
NextRequest ==
  \/ \E t \in Tasks, url \in RequestUrls : ServeIndexNew(t, url)
  \/ \E t \in Tasks : ScrapeJobPostingSettles(t)
  \/ \E t \in Tasks : CacheGetReturns(t)
  \/ \E t \in Tasks : CacheGetFails(t)
  \/ \E t \in Tasks : TimerFires(t)
  \/ \E t \in Tasks : ScrapeFetches(t)
  \/ \E t \in Tasks : FetchAttemptFails(t)
  \/ \E t \in Tasks : FetchPageFails(t)
  \/ \E t \in Tasks, page \in RequestPages : FetchReturns(t, page)
  \/ \E t \in Tasks : CacheSetReturns(t)
  \/ \E t \in Tasks : CacheSetFails(t)
  \/ \E t \in Tasks : TaskEnds(t)
  \/ Tick

SpecRequest == InitRequest /\ [][NextRequest]_vars

----------------------------------------------------------------------------
(* The sliding window as the specification describes it, read off the      *)
(* history of admissions and not off the limiter's map.                    *)

\* two hostnames are counted together ("" is the hostname of a malformed URL)
SameCounter(h1, h2) == options.perDomain => h1 = h2

\* the admissions among the first n of the history that a call for hostname h
\* at time t finds younger than windowMs
AdmitsInWindow(h, t, n) ==
  {i \in 1..n : /\ SameCounter(admitLog[i][1], h)
                /\ admitLog[i][2] <= t
                /\ t - admitLog[i][2] < options.windowMs}

OldestOf(ix) == CHOOSE m \in {admitLog[i][2] : i \in ix} :
                  \A i \in ix : m <= admitLog[i][2]

\* the history before the last isRateLimited call
PriorLen == IF lastCall.ret THEN Len(admitLog) ELSE Len(admitLog) - 1

\* C1: immediately after an isRateLimited call that returned false, no key
\* holds more than requestsPerMinute timestamps younger than windowMs.
C1_AdmissionKeepsWindowBounded ==
  (lastCall.op = "isRateLimited" /\ ~lastCall.ret) =>
    \A k \in DOMAIN requestTimestamps :
      Cardinality({i \in 1..Len(requestTimestamps[k]) :
                     now - requestTimestamps[k][i] < options.windowMs})
        <= options.requestsPerMinute

C1_Witness ==
  /\ lastCall.op = "isRateLimited" /\ ~lastCall.ret
  /\ options.requestsPerMinute = 2
  /\ \E k \in DOMAIN requestTimestamps :
       /\ Len(requestTimestamps[k]) = 2
       /\ \A i \in 1..2 : now - requestTimestamps[k][i] < options.windowMs

\* C2: a call that finds requestsPerMinute admissions of its key younger than
\* windowMs returns true, and a call that finds fewer (in particular none,
\* once the window has elapsed) returns false.
C2_LimitThenRelease ==
  lastCall.op = "isRateLimited" =>
    LET n == Cardinality(AdmitsInWindow(lastCall.url.host, lastCall.at, PriorLen))
    IN /\ n >= options.requestsPerMinute => lastCall.ret
       /\ n < options.requestsPerMinute => ~lastCall.ret

\* N admissions at time 0, one refused call, and an admission once the
\* window has elapsed
C2_Witness ==
  /\ lastCall.op = "isRateLimited" /\ ~lastCall.ret
  /\ options.perDomain
  /\ Len(admitLog) = options.requestsPerMinute + 1
  /\ calls = options.requestsPerMinute + 2
  /\ \A i \in 1..Len(admitLog) : admitLog[i][1] = lastCall.url.host
  /\ \A i \in 1..options.requestsPerMinute : admitLog[i][2] = 0
  /\ lastCall.at >= options.windowMs

\* C3: with perDomain a call for one domain leaves the window and the
\* decision of every other domain as they were; without it an admission for
\* one domain is counted in the window every other URL is checked against.
C3_PerDomainIsolation ==
  (lastCall.op = "isRateLimited" /\ lastCall.url.valid) =>
    \A b \in LimiterUrls :
      (b.valid /\ b.host # lastCall.url.host) =>
        /\ options.perDomain =>
             /\ MapGet(requestTimestamps, b.host) = MapGet(lastCall.before, b.host)
             /\ isRateLimited(requestTimestamps, b, lastCall.at)
                  = isRateLimited(lastCall.before, b, lastCall.at)
        /\ (~options.perDomain /\ ~lastCall.ret) =>
             Len(InWindow(MapGet(requestTimestamps, getDomainKey(b)), lastCall.at))
               = Len(InWindow(MapGet(lastCall.before, getDomainKey(b)), lastCall.at)) + 1

\* domain A is exhausted and a call for domain B has just been admitted
C3_Witness ==
  /\ options.perDomain
  /\ lastCall.op = "isRateLimited" /\ lastCall.url = UrlB1 /\ ~lastCall.ret
  /\ lastCall.at = now
  /\ isRateLimited(requestTimestamps, UrlA1, now)

\* C7: getTimeUntilReset returns 0 when fewer than requestsPerMinute
\* admissions of the key are younger than windowMs, else the oldest of them
\* + windowMs - now floored at 0; the value lies in [0, windowMs] and the call
\* leaves the map as it was.
C7_TimeUntilReset ==
  lastCall.op = "getTimeUntilReset" =>
    LET ix == AdmitsInWindow(lastCall.url.host, lastCall.at, Len(admitLog))
    IN /\ lastCall.val =
            IF Cardinality(ix) < options.requestsPerMinute THEN 0
            ELSE Max(0, OldestOf(ix) + options.windowMs - lastCall.at)
       /\ lastCall.val >= 0
       /\ lastCall.val <= options.windowMs
       /\ requestTimestamps = lastCall.before

\* a limited key part of whose window has already passed
C7_Witness ==
  /\ lastCall.op = "getTimeUntilReset"
  /\ lastCall.val > 0
  /\ lastCall.val < options.windowMs

\* the admissions task t found younger than windowMs when it called
PriorOf(t) == AdmitsInWindow(task[t].url.host, task[t].calledAt, task[t].logLen)

WaitOver(t) == task[t].pc \in {"resolved", "returned", "fnCalled"}

\* C5: waitForRateLimit returns at once when the key is not limited at call
\* time; when it is limited the caller is suspended for the time until
\* reset at call time (oldest admission in the window + windowMs - call
\* time), which is never longer than windowMs.
C5_WaitBlocksForTimeUntilReset ==
  \A t \in Tasks :
    (task[t].kind = "wait" /\ task[t].pc # "idle") =>
      LET limitedThen == Cardinality(PriorOf(t)) >= options.requestsPerMinute
          expected == IF limitedThen
                        THEN OldestOf(PriorOf(t)) + options.windowMs - task[t].calledAt
                        ELSE 0
      IN /\ task[t].limited = limitedThen
         /\ task[t].waitTime = expected
         /\ task[t].waitTime <= options.windowMs
         /\ task[t].pc = "sleeping" =>
              now <= task[t].calledAt + expected
         /\ WaitOver(t) => task[t].resumedAt = task[t].calledAt + expected

C5_Witness ==
  \E t \in Tasks :
    /\ task[t].kind = "wait" /\ task[t].pc = "returned"
    /\ task[t].limited
    /\ task[t].waitTime > 0 /\ task[t].waitTime < options.windowMs
    /\ task[t].resumedAt = task[t].calledAt + task[t].waitTime

\* C6: the wrapped function is invoked only after waitForRateLimit for its
\* first argument has completed; with limit 1 a wrapped call for a key with
\* no admission in the window invokes fn at once and one issued inside the
\* window invokes fn only when the admission's window has passed.
C6_WrappedCallWaitsFirst ==
  \A t \in Tasks :
    (task[t].kind = "wrapped" /\ task[t].pc = "fnCalled") =>
      /\ task[t].waited
      /\ task[t].fnAt >= task[t].resumedAt
      /\ options.requestsPerMinute = 1 =>
           /\ PriorOf(t) = {} => task[t].fnAt = task[t].calledAt
           /\ \A i \in PriorOf(t) :
                task[t].fnAt >= admitLog[i][2] + options.windowMs

C6_Witness ==
  \E t \in Tasks :
    /\ options.requestsPerMinute = 1
    /\ task[t].kind = "wrapped" /\ task[t].pc = "fnCalled"
    /\ PriorOf(t) # {}
    /\ task[t].fnAt > task[t].calledAt

----------------------------------------------------------------------------
(* The scrape pipeline *)

Scraping(t) == task[t].kind = "scrape"

\* the fetchPage calls for hostname h started in [a, a + windowMs)
FetchesIn(h, a) ==
  {i \in 1..Len(fetchLog) : /\ fetchLog[i][1] = h
                            /\ a <= fetchLog[i][2]
                            /\ fetchLog[i][2] < a + options.windowMs}

\* C4: for every domain and every interval of length windowMs, the scrapes
\* start at most requestsPerMinute fetches for that domain.
C4_FetchRateBounded ==
  \A u \in WaitUrls, a \in 0..MaxTime :
    Cardinality(FetchesIn(u.host, a)) <= options.requestsPerMinute

Complete(data) ==
  data.title # <<>> /\ data.company # <<>> /\ data.description # <<>>

\* the scrape of task t got a page and ran the extraction on it
Extracted(t) ==
  /\ Scraping(t)
  /\ task[t].fetches > 0
  /\ task[t].pc \in {"cacheSet", "done", "failed"}
  /\ task[t].err # "FETCH_FAILED"

\* C8: a record with an empty title, company or description is never the
\* result of a scrape, never handed to the cache and never in a cache row;
\* a scrape whose extraction (after the generic fallback) left one of them
\* empty has failed with the extraction error, and only such a scrape has.
C8_IncompleteNeverReturnedOrCached ==
  /\ \A t \in Tasks :
       Scraping(t) /\ task[t].pc \in {"cacheSet", "done"} =>
         Complete(task[t].data)
  /\ \A u \in DOMAIN scraper_cache : Complete(scraper_cache[u].content)
  /\ \A t \in Tasks :
       Extracted(t) =>
         (~Complete(task[t].extracted)
            <=> task[t].pc = "failed" /\ task[t].err = "EXTRACTION_FAILED")

\* a page with a whitespace-only company under the LinkedIn selectors and a
\* whitespace-only h1 was fetched with the cache in use: the scrape failed
\* and the URL has no row
C8_Witness ==
  \E t \in Tasks :
    /\ Extracted(t)
    /\ ready /\ ~task[t].bypass_cache
    /\ task[t].err = "EXTRACTION_FAILED"
    /\ task[t].extracted.title = <<>>
    /\ task[t].url \notin DOMAIN scraper_cache

\* the entry of url is not expired now
Fresh(url) ==
  url \in DOMAIN scraper_cache /\ ~(scraper_cache[url].expires_at < now)

\* the cache lookup of task t is answered in this step
LookupAnswered(t) ==
  /\ task[t].pc = "cacheGet"
  /\ task'[t].pc # "cacheGet"
  /\ task'[t].lookup # "error"

SameRowBut(u, columns) ==
  \A c \in DOMAIN scraper_cache[u] \ columns :
    scraper_cache'[u][c] = scraper_cache[u][c]

----------------------------------------------------------------------------
(* The cache store *)

\* task t calls get in this step, the RPC runs, and the URL has been set
GetAfterSet(t) ==
  /\ task[t].pc = "idle"
  /\ task'[t].op = "get"
  /\ task'[t].ok
  /\ task'[t].url \in DOMAIN results

\* the instant the last set of url makes its row expire
ExpiryOf(url) ==
  results[url].at + cacheOptions(results[url].scraper).ttl_hours

\* C11, as stated: a get after set(url, X) returns an entry with content X,
\* with isExpired false before the TTL has expired and true after it, and
\* with the hit count incremented by 1.
C11_RoundTripAsStated ==
  [][\A t \in Tasks :
       GetAfterSet(t) /\ task'[t].update_hit_count =>
         LET u == task'[t].url
         IN /\ Len(task'[t].entry) = 1
            /\ task'[t].entry[1].content = results[u].data
            /\ now < ExpiryOf(u) => ~task'[t].entry[1].is_expired
            /\ now > ExpiryOf(u) => task'[t].entry[1].is_expired
            /\ task'[t].entry[1].cache_hit_count
                 = scraper_cache[u].cache_hit_count + 1]_vars

\* C11, amended: a get after set(url, X) returns an entry with content X,
\* with isExpired false before the TTL has expired and true after it; the
\* get increments the hit count of the stored row by 1, and the entry it
\* returns carries the hit count from before that increment.
C11_RoundTrip ==
  [][\A t \in Tasks :
       GetAfterSet(t) /\ task'[t].update_hit_count =>
         LET u == task'[t].url
         IN /\ Len(task'[t].entry) = 1
            /\ task'[t].entry[1].content = results[u].data
            /\ now < ExpiryOf(u) => ~task'[t].entry[1].is_expired
            /\ now > ExpiryOf(u) => task'[t].entry[1].is_expired
            /\ scraper_cache'[u].cache_hit_count
                 = scraper_cache[u].cache_hit_count + 1
            /\ task'[t].entry[1].cache_hit_count
                 = scraper_cache[u].cache_hit_count]_vars

\* X was set and the first get of the URL, before the expiry, has returned
C11_Witness ==
  \E t \in Tasks :
    /\ task[t].op = "get" /\ task[t].ok /\ task[t].update_hit_count
    /\ Len(task[t].entry) = 1
    /\ task[t].entry[1].content = ContentX
    /\ ~task[t].entry[1].is_expired
    /\ now < task[t].entry[1].expires_at
    /\ task[t].entry[1].cache_hit_count = 0
    /\ scraper_cache[task[t].url].cache_hit_count = 1

\* the set call of task t resolves in this step, and neither a missing
\* credential nor a failure of the RPC transport kept it from the store
SetCompletes(t) ==
  /\ task[t].pc # "done"
  /\ task'[t].pc = "done"
  /\ task'[t].op = "set"
  /\ ready
  /\ task'[t].err # "RPC_FAILED"

\* C12: whenever a set call for a URL completes, alone or next to other set
\* calls for the URL, the store holds the one row of the URL with hit count
\* 0 and with the content and the expiry of that set.
C12_IdempotentOverwrite ==
  [][\A t \in Tasks :
       SetCompletes(t) =>
         LET u == task'[t].url
         IN /\ u \in DOMAIN scraper_cache'
            /\ scraper_cache'[u].content = task'[t].data
            /\ scraper_cache'[u].cache_hit_count = 0
            /\ scraper_cache'[u].expires_at
                 = task'[t].calledAt + cacheOptions(task'[t].name).ttl_hours]_vars

\* the TTL configured for the write that produced the row of url
TtlOfRow(url) == cacheOptions(scraper_cache[url].scraper_name).ttl_hours

\* C13: every row of the store expires the configured TTL after its
\* createdAt or after its updatedAt.
C13_ExpiryTracksTimestamps ==
  \A u \in DOMAIN scraper_cache :
    \/ scraper_cache[u].expires_at = scraper_cache[u].created_at + TtlOfRow(u)
    \/ scraper_cache[u].expires_at = scraper_cache[u].updated_at + TtlOfRow(u)

----------------------------------------------------------------------------
(* The cache inside scrape *)

\* the lookup of task t finds a row and is treated as a miss
TreatedAsMiss(t) ==
  LET u == task[t].url
  IN /\ task'[t].lookup = "expired"
     /\ ~task'[t].cacheHit
     /\ task'[t].data = NoData
     /\ task'[t].pc \in {"sleeping", "resolved"}
     /\ task'[t].slots = task[t].slots + 1
     /\ u \in DOMAIN scraper_cache'
     /\ SameRowBut(u, {"cache_hit_count", "updated_at"})

\* a scrape whose lookup found an expired row returns only after a fetch
FetchedAfterExpiry ==
  \A t \in Tasks :
    Scraping(t) /\ task[t].lookup = "expired" /\ task[t].pc = "done" =>
      task[t].fetches = 1 /\ ~task[t].cacheHit

\* C14 as stated: a scrape without bypass whose lookup reads a row at a time
\* now >= expires_at treats it as a miss (the cached content is not returned
\* and the scrape goes on to the limiter and the fetch) and the row stays in
\* the store.
C14_SoftExpiryAsStated ==
  [][\A t \in Tasks :
       LookupAnswered(t) /\ task[t].url \in DOMAIN scraper_cache
         /\ now >= scraper_cache[task[t].url].expires_at => TreatedAsMiss(t)]_vars

\* C14: a scrape without bypass whose lookup reads a row at a time
\* now > expires_at treats it as a miss: the cached content is not returned,
\* the scrape takes a rate-limit slot and returns only after a fetch, and the
\* row stays in the store with its content and expiry.
C14_SoftExpiry ==
  [][/\ \A t \in Tasks :
          LookupAnswered(t) /\ task[t].url \in DOMAIN scraper_cache
            /\ now > scraper_cache[task[t].url].expires_at => TreatedAsMiss(t)
     /\ FetchedAfterExpiry']_vars

\* a scrape found the expired row of its URL, fetched and is about to write,
\* the row still holding the record of the earlier write
C14_Witness ==
  \E t \in Tasks :
    /\ Scraping(t) /\ task[t].lookup = "expired" /\ task[t].pc = "cacheSet"
    /\ task[t].fetches = 1
    /\ task[t].url \in DOMAIN scraper_cache
    /\ scraper_cache[task[t].url].expires_at < now
    /\ scraper_cache[task[t].url].content = results[task[t].url].data
    /\ scraper_cache[task[t].url].cache_hit_count = 1

\* the record scrape returns for what task t extracted
Normalized(t) ==
  stamp(cleanJobData(task[t].extracted), task[t].name, task[t].url)

\* C15: when the fetch returns a page whose extraction passes validation, the
\* scrape hands the normalized record to the cache write or returns it, and
\* whatever the outcome of the cache write (the row written, or the RPC
\* answering with an error or rejecting) the scrape returns that record; a
\* scrape fails only on an unhandled URL, a failed fetch or a failed
\* extraction.
C15_CacheWriteFailureSwallowed ==
  [][\A t \in Tasks :
       /\ task[t].pc = "fetching" /\ task'[t].pc # "fetching"
            /\ validateJobData(task'[t].extracted) =>
            /\ task'[t].pc \in {"cacheSet", "done"}
            /\ task'[t].data = Normalized(t)'
            /\ task'[t].err = ""
       /\ task[t].pc = "cacheSet" /\ task'[t].pc # "cacheSet" =>
            /\ task'[t].pc = "done"
            /\ task'[t].err = ""
            /\ task'[t].data = task[t].data
            /\ task'[t].data = Normalized(t)
            /\ Complete(task'[t].data)
       /\ task'[t].pc = "failed" /\ Scraping(t)' =>
            task'[t].err \in {"INVALID_URL", "CANNOT_HANDLE", "FETCH_FAILED",
                              "EXTRACTION_FAILED"}]_vars

\* a scrape against a ready cache missed, fetched, failed to write the row
\* and returned the record all the same
C15_Witness ==
  \E t \in Tasks :
    /\ Scraping(t) /\ task[t].pc = "done" /\ ready /\ ~task[t].bypass_cache
    /\ task[t].lookup = "miss" /\ task[t].fetches = 1 /\ task[t].writes = 0
    /\ task[t].url \notin DOMAIN scraper_cache
    /\ task[t].data = Normalized(t)
    /\ task[t].data.title # <<>>

\* task t is running a scrape called with bypass_cache
Bypassing(t) == Scraping(t) /\ task[t].bypass_cache

\* C17: a scrape called with bypass_cache goes from the call straight to the
\* rate limiter, never waits on a cache lookup or a cache write, and none of
\* its steps changes any row of the store (content, expiry and hit count
\* included) or records a cache access; when it returns it has fetched once.
C17_BypassLeavesCacheAlone ==
  [][\A t \in Tasks :
       /\ task[t].pc = "idle" /\ Bypassing(t)'
            /\ canHandle(task'[t].name, task'[t].url) =>
            /\ task'[t].pc \in {"sleeping", "resolved"}
            /\ task'[t].slots = 1
            /\ UNCHANGED <<scraper_cache, results, monitor>>
       /\ Bypassing(t) /\ task'[t] # task[t] =>
            /\ UNCHANGED <<scraper_cache, results>>
            /\ monitor'.cacheMetrics = monitor.cacheMetrics
       /\ Bypassing(t)' =>
            /\ task'[t].pc \notin {"cacheGet", "cacheSet"}
            /\ task'[t].lookup = "none" /\ task'[t].writes = 0
            /\ ~task'[t].cacheHit
            /\ task'[t].pc = "done" => task'[t].fetches = 1]_vars

\* a bypassing scrape of a URL whose fresh row was written earlier has
\* fetched and returned, the row still never read
C17_Witness ==
  \E t \in Tasks :
    /\ Bypassing(t) /\ task[t].pc = "done" /\ task[t].fetches = 1
    /\ ready /\ Fresh(task[t].url)
    /\ results[task[t].url].at < task[t].startTime
    /\ scraper_cache[task[t].url].cache_hit_count = 0
    /\ scraper_cache[task[t].url].updated_at = results[task[t].url].at
    /\ scraper_cache[task[t].url].content = results[task[t].url].data

\* every row keeps its content, extractor name, HTTP status and expiry
RowsKept ==
  /\ DOMAIN scraper_cache' = DOMAIN scraper_cache
  /\ \A u \in DOMAIN scraper_cache :
       SameRowBut(u, {"cache_hit_count", "updated_at"})

\* C18: the step in which a scrape's fetch fails changes no row of the store
\* and ends the scrape with FETCH_FAILED; a scrape that failed so has made no
\* cache write, and every step of a scrape before its cache write keeps the
\* content, extractor name, HTTP status and expiry of every row.
C18_FailedFetchKeepsEntry ==
  [][\A t \in Tasks :
       /\ Scraping(t) /\ task[t].pc = "fetching"
            /\ task'[t].err = "FETCH_FAILED" =>
            /\ task'[t].pc = "failed"
            /\ UNCHANGED <<scraper_cache, results>>
       /\ Scraping(t)' /\ task'[t].err = "FETCH_FAILED" =>
            /\ task'[t].writes = 0
            /\ task'[t].pc # "cacheSet"
       /\ Scraping(t)' /\ task'[t] # task[t] /\ task[t].pc # "cacheSet" =>
            RowsKept]_vars

\* a scrape found the expired row of its URL, its fetch failed, and the row
\* still holds the record and expiry of the earlier write
C18_Witness ==
  \E t \in Tasks :
    /\ Scraping(t) /\ task[t].pc = "failed" /\ task[t].err = "FETCH_FAILED"
    /\ task[t].lookup = "expired" /\ task[t].fetches = 1
    /\ task[t].url \in DOMAIN scraper_cache
    /\ scraper_cache[task[t].url].content = results[task[t].url].data
    /\ scraper_cache[task[t].url].expires_at = results[task[t].url].expires_at
    /\ scraper_cache[task[t].url].expires_at < task[t].startTime

----------------------------------------------------------------------------
(* A cache that is not ready *)

\* task t has just been called as a ScraperCache method
CacheCalled(t, method) ==
  task[t].pc = "idle" /\ task'[t].kind = "cache" /\ task'[t].op = method

\* C16: while the cache is not ready, get resolves with null, set resolves
\* with null and exists resolves with false, none of them changing the
\* table; a scrape goes from the call to the rate limiter, never waits on a
\* cache lookup or write, records no cache access, changes no row, and
\* returns the normalized record after one fetch.
C16_NotReadyCacheIsNoOp ==
  [][~ready =>
       /\ UNCHANGED <<scraper_cache, results>>
       /\ monitor'.cacheMetrics = monitor.cacheMetrics
       /\ \A t \in Tasks :
            /\ CacheCalled(t, "get") =>
                 ~task'[t].ok /\ task'[t].entry = <<>> /\ task'[t].pc = "done"
            /\ CacheCalled(t, "set") =>
                 ~task'[t].ok /\ task'[t].writes = 0 /\ task'[t].pc = "done"
            /\ CacheCalled(t, "exists") =>
                 ~task'[t].ok /\ task'[t].pc = "done"
            /\ task[t].pc = "idle" /\ Scraping(t)' =>
                 task'[t].pc \in {"sleeping", "resolved"} /\ task'[t].slots = 1
            /\ Scraping(t)' =>
                 /\ task'[t].pc \notin {"cacheGet", "cacheSet"}
                 /\ task'[t].lookup = "none" /\ task'[t].writes = 0
                 /\ task'[t].pc = "done" =>
                      /\ task'[t].fetches = 1
                      /\ task'[t].data = Normalized(t)'
                      /\ Complete(task'[t].data)]_vars

\* over a table holding a fresh row for UrlA1, and with no credentials, a
\* get of UrlA1 resolved with null and a scrape fetched and returned its
\* record, the row as the earlier run left it
C16_Witness ==
  /\ ~ready
  /\ scraper_cache = SeededCache
  /\ Fresh(UrlA1)
  /\ \E t \in Tasks :
       /\ task[t].kind = "cache" /\ task[t].op = "get" /\ task[t].url = UrlA1
       /\ ~task[t].bypass_cache /\ ~task[t].ok /\ task[t].entry = <<>>
  /\ \E t \in Tasks :
       /\ Scraping(t) /\ task[t].pc = "done" /\ task[t].fetches = 1
       /\ task[t].lookup = "none" /\ task[t].data.title # <<>>

----------------------------------------------------------------------------
(* Strategy resolution *)

\* task t has just called getScraper
Resolved(t) ==
  task[t].pc = "idle" /\ task'[t].kind = "factory"
    /\ task'[t].op = "getScraper"

\* C19: getScraper returns the first strategy, in registration order, whose
\* canHandle(url) is true, and the generic strategy when no registered
\* strategy's is; with the constructor's registrations a linkedin.com/jobs
\* URL resolves to LinkedIn and a URL no pattern matches to Generic.
C19_FirstMatchInRegistrationOrder ==
  [][\A t \in Tasks :
       Resolved(t) =>
         LET url == task'[t].url
             r == task'[t].name
         IN /\ \/ \E i \in 1..Len(scrapers) :
                    /\ r = scrapers[i]
                    /\ canHandle(scrapers[i], url)
                    /\ \A j \in 1..(i - 1) : ~canHandle(scrapers[j], url)
               \/ /\ r = "Generic"
                  /\ \A i \in 1..Len(scrapers) : ~canHandle(scrapers[i], url)
            /\ scrapers = DefaultScrapers /\ url = UrlA1 => r = "LinkedIn"
            /\ scrapers = DefaultScrapers /\ url = UrlB1 => r = "Generic"
            /\ scrapers' = scrapers]_vars

\* Greenhouse was registered before LinkedIn, and a URL both can handle
\* resolved to Greenhouse
C19_Witness ==
  \E t \in Tasks :
    /\ task[t].kind = "factory" /\ task[t].url = UrlGL
    /\ Len(scrapers) >= 2
    /\ scrapers[1] = "Greenhouse" /\ scrapers[2] = "LinkedIn"
    /\ canHandle("LinkedIn", UrlGL) /\ canHandle("Greenhouse", UrlGL)
    /\ task[t].name = "Greenhouse"
    /\ task[t].consulted = <<"Greenhouse">>

\* task t has just called canHandle of the generic strategy
GenericAsked(t) ==
  task[t].pc = "idle" /\ task'[t].kind = "strategy"
    /\ task'[t].op = "canHandle" /\ task'[t].name = "Generic"

Range(list) == {list[i] : i \in 1..Len(list)}

\* the generic strategy is no member of the registered list, its canHandle
\* does not run during the resolution of task t, and it is returned only
\* after every registered strategy was consulted and none could handle
GenericLast(t) ==
  /\ "Generic" \notin Range(scrapers)
  /\ "Generic" \notin Range(task'[t].consulted)
  /\ task'[t].name = "Generic" =>
       /\ task'[t].consulted = scrapers
       /\ \A i \in 1..Len(scrapers) : ~canHandle(scrapers[i], task'[t].url)

----------------------------------------------------------------------------
(* The frame of isRateLimited *)

\* C30: an isRateLimited call that returns true leaves the stored
\* timestamps of its key (and the whole map) as they were, and no
\* isRateLimited call, whatever it returns, changes the stored window of a
\* key other than its own.
C30_RefusalRecordsNothing ==
  lastCall.op = "isRateLimited" =>
    LET key == getDomainKey(lastCall.url)
    IN /\ lastCall.ret =>
            /\ MapGet(requestTimestamps, key) = MapGet(lastCall.before, key)
            /\ requestTimestamps = lastCall.before
       /\ \A k \in (DOMAIN requestTimestamps) \cup (DOMAIN lastCall.before) :
            k # key =>
              MapGet(requestTimestamps, k) = MapGet(lastCall.before, k)

\* a call for a domain at its limit was refused while another domain has a
\* window of its own, everything stored as before the call
C30_Witness ==
  /\ lastCall.op = "isRateLimited" /\ lastCall.ret /\ options.perDomain
  /\ isValidUrl(lastCall.url)
  /\ Len(MapGet(requestTimestamps, lastCall.url.host))
       = options.requestsPerMinute
  /\ \E k \in DOMAIN requestTimestamps :
       k # lastCall.url.host /\ MapGet(requestTimestamps, k) # <<>>
  /\ requestTimestamps = lastCall.before

----------------------------------------------------------------------------
(* fetchWithRetry *)

Fetching(t) == task[t].kind = "fetch"

\* what is left for task t to do: two steps per attempt left, one more
\* while its backoff timer runs, nothing once it has returned or thrown
Variant(t) ==
  IF task[t].pc \in {"attempting", "backoff"}
    THEN 2 * task[t].attemptsLeft + (IF task[t].pc = "backoff" THEN 1 ELSE 0)
    ELSE 0

\* C23: for every retries >= 0 a call of fetchWithRetry makes at most
\* `retries` fetch attempts; every step of the call brings it nearer to its
\* end (the attempts left go down with every failure); it ends by returning
\* a 2xx response or, exactly when every attempt of the budget has failed
\* (network error or other status), by throwing FETCH_FAILED with code,
\* message, technicalDetails and suggestion.
C23_FetchWithRetryTerminates ==
  [][\A t \in Tasks :
       Fetching(t)' /\ task'[t] # task[t] =>
         /\ task'[t].attempts <= task'[t].retries
         /\ task'[t].attemptsLeft >= 0
         /\ task'[t].pc \in {"attempting", "backoff", "done", "failed"}
         /\ Fetching(t) => Variant(t)' < Variant(t)
         /\ task'[t].pc = "done" => task'[t].status = 200
         /\ task'[t].pc = "failed" =>
              /\ task'[t].attempts = task'[t].retries
              /\ task'[t].attemptsLeft = 0
              /\ task'[t].err = "FETCH_FAILED"
              /\ task'[t].error.code = "FETCH_FAILED"
              /\ task'[t].error.message # ""
              /\ task'[t].error.technicalDetails # ""
              /\ task'[t].error.suggestion # ""
         /\ task'[t].pc # "failed" => task'[t].error = NoError]_vars

\* a call with a budget of three attempts has thrown after its third
\* attempt, the last one answered with a non-2xx status
C23_Witness ==
  \E t \in Tasks :
    /\ Fetching(t) /\ task[t].pc = "failed" /\ task[t].retries = MaxRetries
    /\ task[t].attempts = MaxRetries /\ Len(task[t].delays) = MaxRetries - 1
    /\ task[t].error.code = "FETCH_FAILED"
    /\ task[t].error.technicalDetails
         = "Failed to fetch page (Status: {status})"

\* C24: the k-th backoff delay, the one waited before attempt k + 1, is
\* retryDelay * (k + 1); consecutive delays differ by retryDelay; attempt
\* n is made exactly that delay after attempt n - 1 failed; and a delay is
\* waited after every failed attempt but the last one of the budget.
C24_LinearBackoff ==
  [][\A t \in Tasks :
       Fetching(t)' /\ task'[t] # task[t] =>
         LET r == task'[t]
         IN /\ \A k \in 1..Len(r.delays) :
                 r.delays[k] = r.retryDelay * (k + 1)
            /\ \A k \in 2..Len(r.delays) :
                 r.delays[k] - r.delays[k - 1] = r.retryDelay
            /\ \A n \in 2..Len(r.attemptAt) :
                 r.attemptAt[n] - r.attemptAt[n - 1] = r.retryDelay * n
            /\ r.pc = "backoff" =>
                 /\ Len(r.delays) = r.attempts
                 /\ r.wakeAt = now + r.delays[Len(r.delays)]
                 /\ r.attempts < r.retries
            /\ r.pc \in {"attempting", "done", "failed"} =>
                 Len(r.delays) = Max(0, r.attempts - 1)]_vars

\* a call with retryDelay 2 made its third attempt, 4 after the first
\* failure and 6 after the second, and gave up with no further delay
C24_Witness ==
  \E t \in Tasks :
    /\ Fetching(t) /\ task[t].pc = "failed" /\ task[t].retryDelay = 2
    /\ task[t].retries = 3 /\ task[t].attempts = 3
    /\ task[t].delays = <<4, 6>>
    /\ task[t].attemptAt[3] - task[t].attemptAt[2] = 6
    /\ task[t].attemptAt[2] - task[t].attemptAt[1] = 4
    /\ now = task[t].attemptAt[3]

AfterSuccess(t) ==
  Fetching(t) /\ task[t].pc = "attempting" /\ task'[t].status = 200

\* C25: the attempt that is answered with a 2xx response ends the call in
\* the same step: the response is returned, no further attempt is made, no
\* backoff timer is set and attemptsLeft is not counted down; a call that
\* has returned makes no step.
C25_NoRetryOnSuccess ==
  [][\A t \in Tasks :
       /\ AfterSuccess(t) =>
            /\ task'[t].pc = "done"
            /\ task'[t].attempts = task[t].attempts
            /\ task'[t].attemptsLeft = task[t].attemptsLeft
            /\ task'[t].delays = task[t].delays
            /\ task'[t].wakeAt = task[t].wakeAt
            /\ task'[t].err = ""
            /\ now' = now
       /\ Fetching(t) /\ task[t].pc = "done" /\ task'[t] # task[t] =>
            task'[t] = IdleTask
       /\ Fetching(t)' /\ task'[t].pc = "done" => task'[t].status = 200]_vars

\* a call succeeded on its second attempt with attempts to spare
C25_Witness ==
  \E t \in Tasks :
    /\ Fetching(t) /\ task[t].pc = "done" /\ task[t].status = 200
    /\ task[t].attempts = 2 /\ task[t].retries = 3
    /\ task[t].attemptsLeft = 2 /\ Len(task[t].delays) = 1
    /\ now = task[t].attemptAt[2]

----------------------------------------------------------------------------
(* Extraction fallback *)

\* C22: a scrape that returns after fetching a page on which the strategy's
\* own selectors find no company, and whose JSON-LD block names a hiring
\* organization, returns that name as the company.
C22_CompanyFromJsonLd ==
  \A t \in Tasks :
    /\ Scraping(t) /\ task[t].pc = "done" /\ task[t].fetches = 1
    /\ extractData(task[t].name, task[t].page, task[t].url).company = <<>>
    /\ task[t].page.jsonLd # <<>>
    => task[t].data.company = task[t].page.jsonLd

----------------------------------------------------------------------------
(* The HTTP entry points *)

\* the request task t has been answered
Responded(t) == task[t].handler # "none" /\ task[t].pc = "responded"

GenericNames == {"Generic", "generic"}

\* C21: when the strategy a request resolved to is site-specific and its
\* scrape threw, the generic scrape was attempted, once, for the same URL;
\* its record is the one returned, and when it threw too the error sent
\* holds both messages.  When the request resolved to the generic strategy
\* and its scrape threw, that error is sent and nothing else was attempted.
C21_OrchestratorFallback ==
  \A t \in Tasks :
    LET r == task[t]
    IN Responded(t) /\ r.tried # <<>> /\ r.errors # <<>> =>
         IF r.tried[1] \notin GenericNames
           THEN /\ Len(r.tried) = 2
                /\ r.tried[2] \in GenericNames
                /\ Len(r.errors) = 1 =>
                     /\ r.resp.status = 200
                     /\ r.resp.data = cleanJobData(r.data)
                /\ Len(r.errors) = 2 =>
                     /\ r.resp.status = 500
                     /\ r.resp.details = bothMessages(r.errors[1], r.errors[2])
           ELSE /\ r.tried = <<r.tried[1]>>
                /\ Len(r.errors) = 1
                /\ r.resp.status = 500

\* the request task t carries a well-formed URL of the blocked domain
Blocked(t) ==
  /\ task[t].handler # "none"
  /\ task[t].url.valid
  /\ task[t].url.host = "indeed.com"

\* C26: a request for a URL of the blocked domain is answered in the step
\* that receives it, with type UNSUPPORTED_PLATFORM; no strategy was
\* resolved or consulted for it, it made no cache lookup, took no rate-limit
\* slot and fetched nothing, and the step leaves the cache table, the
\* limiter and the fetch log as they were.
C26_BlockedDomainShortCircuit ==
  [][\A t \in Tasks :
       Blocked(t)' =>
         /\ task'[t].pc = "responded"
         /\ task'[t].resp.type = "UNSUPPORTED_PLATFORM"
         /\ task'[t].resp.status \notin {0, 200}
         /\ task'[t].resp.data = NoData
         /\ task'[t].tried = <<>>
         /\ task'[t].consulted = <<>>
         /\ task'[t].name = ""
         /\ task'[t].lookup = "none"
         /\ task'[t].slots = 0
         /\ task'[t].fetches = 0
         /\ task[t] # task'[t] =>
              /\ task[t].pc = "idle"
              /\ UNCHANGED <<scraper_cache, requestTimestamps, admitLog,
                             fetchLog, monitor, results>>]_vars

\* both entry points have turned an indeed.com request away
C26_Witness ==
  \E t, u \in Tasks :
    /\ Responded(t) /\ task[t].handler = "index.ts" /\ task[t].url = UrlI
    /\ Responded(u) /\ task[u].handler = "index.new.ts" /\ task[u].url = UrlI
    /\ task[t].resp.type = "UNSUPPORTED_PLATFORM"
    /\ task[u].resp.type = "UNSUPPORTED_PLATFORM"

\* C27: a request that failed is answered with the status of its failure
\* class: 400 when the URL is missing or malformed, 422 when it is of the
\* blocked domain, 500 when scraping it failed.
C27_StatusOfFailureClass ==
  \A t \in Tasks :
    Responded(t) /\ task[t].resp.status # 200 =>
      task[t].resp.status =
        IF ~isValidUrl(task[t].url) THEN 400
        ELSE IF Blocked(t) THEN 422
        ELSE 500

\* the request task t was answered with a failure
Failed(t) == Responded(t) /\ task[t].resp.status # 200

\* C28 as stated: every failure response carries a suggestion.
C28_SuggestionAlwaysAsStated ==
  \A t \in Tasks : Failed(t) => task[t].resp.suggestion # ""

\* C28: a failure response for a malformed URL, a fetch failure or an
\* extraction failure carries a suggestion; the response for a missing URL
\* carries an error and nothing else, and the response for the blocked
\* domain carries a message and a type and no suggestion.
C28_SuggestionOnFailure ==
  \A t \in Tasks :
    LET resp == task[t].resp
    IN Failed(t) =>
         /\ resp.error # "" \/ resp.code # ""
         /\ IF task[t].url = NoUrl
              THEN resp = [NoResponse EXCEPT !.status = resp.status,
                                             !.error = resp.error]
            ELSE IF Blocked(t)
              THEN /\ resp.suggestion = ""
                   /\ resp.message # ""
                   /\ resp.type = "UNSUPPORTED_PLATFORM"
            ELSE resp.suggestion # ""

\* one request failed on its fetch and carries the suggestion of
\* FETCH_FAILED, one failed with both messages and carries the handler's
C28_Witness ==
  \E t, u \in Tasks :
    /\ Failed(t) /\ task[t].resp.code = "FETCH_FAILED"
    /\ task[t].resp.suggestion = fetchFailedError("").suggestion
    /\ Failed(u) /\ Len(task[u].errors) = 2
    /\ task[u].resp.suggestion = failedToScrape(<<>>).suggestion

\* what a malformed URL must leave alone
sharedState ==
  <<scraper_cache, requestTimestamps, admitLog, fetchLog, monitor, results>>

----------------------------------------------------------------------------
(* The limiter's two answers *)

\* C36: at every instant and for every URL, getTimeUntilReset(url) is
\* positive exactly when isRateLimited(url), called at that instant, would
\* return true; a getTimeUntilReset call that returned 0 was made when the
\* caller would have been admitted.
C36_ResetTimeAgreesWithLimit ==
  /\ \A url \in LimiterUrls :
       getTimeUntilReset(requestTimestamps, url, now) > 0
         <=> isRateLimited(requestTimestamps, url, now)
  /\ lastCall.op = "getTimeUntilReset" =>
       (lastCall.val > 0
          <=> isRateLimited(lastCall.before, lastCall.url, lastCall.at))

\* getTimeUntilReset returned 0 for a key whose list is full of timestamps
\* that have all left the window, and a positive time has been returned too
C36_Witness ==
  /\ lastCall.op = "getTimeUntilReset" /\ lastCall.val = 0
  /\ lastCall.at = now
  /\ Len(MapGet(requestTimestamps, getDomainKey(lastCall.url)))
       = options.requestsPerMinute
  /\ \E url \in LimiterUrls :
       getTimeUntilReset(requestTimestamps, url, now) > 0

----------------------------------------------------------------------------
(* Concurrent scrapes at the limiter *)

\* the scrape task u called isRateLimited at this instant, for the key of
\* hostname h, is still on its way to its fetch, and found exactly one slot
\* of that key free
TookLastSlot(u, h) ==
  /\ task[u].kind = "scrape" /\ task[u].slots = 1
  /\ task[u].pc \in {"sleeping", "resolved"}
  /\ task[u].calledAt = now
  /\ SameCounter(task[u].url.host, h)
  /\ Cardinality(AdmitsInWindow(h, now, task[u].logLen))
       = options.requestsPerMinute - 1

\* the step is the isRateLimited call of the scrape task t
CallsLimiter(t) ==
  /\ task[t].pc \in {"idle", "cacheGet"}
  /\ task'[t].kind = "scrape" /\ task'[t].slots = 1

\* C31 as stated: of two scrape tasks racing for the one slot left of a key,
\* the second is admitted as the first was.
C31_BothAdmittedAsStated ==
  [][\A t, u \in Tasks :
       t # u /\ CallsLimiter(t) /\ TookLastSlot(u, task'[t].url.host) =>
         ~task'[t].limited]_vars

\* C31: of two scrape tasks racing for the one slot left of a key, the first
\* to call isRateLimited is admitted and its timestamp appended before the
\* second calls; the second is found limited and appends nothing.
C31_OneAdmittedOfTwo ==
  [][\A t, u \in Tasks :
       t # u /\ CallsLimiter(t) /\ TookLastSlot(u, task'[t].url.host) =>
         /\ ~task[u].limited
         /\ task'[t].limited
         /\ requestTimestamps' = requestTimestamps
         /\ admitLog' = admitLog
         /\ Len(InWindow(MapGet(requestTimestamps,
                                getDomainKey(task'[t].url)), now))
              = options.requestsPerMinute]_vars

\* two scrapes of one domain were called at the same instant with one slot
\* left of two: one was admitted, the other sleeps
C31_Witness ==
  \E t, u \in Tasks :
    /\ t # u /\ TookLastSlot(u, task[t].url.host)
    /\ options.requestsPerMinute = 2
    /\ task[t].kind = "scrape" /\ task[t].calledAt = now
    /\ task[t].pc = "sleeping" /\ task[t].limited
    /\ task[u].pc = "resolved" /\ ~task[u].limited

\* the scrape task t was found limited by its isRateLimited call
LimitedScrape(t) ==
  task[t].kind = "scrape" /\ task[t].slots = 1 /\ task[t].limited

\* C32: a scrape that found its key limited sleeps once and goes on to its
\* fetch: from its isRateLimited call on it makes no further call of the
\* limiter, no timestamp is appended for it and the limiter's map stays as
\* it is through every one of its steps, whatever the other callers of the
\* key do.
C32_NoRecheckAfterWait ==
  [][\A t \in Tasks :
       LimitedScrape(t) /\ task'[t] # task[t] =>
         /\ UNCHANGED <<requestTimestamps, admitLog, lastCall>>
         /\ \/ /\ task[t].pc = "sleeping" /\ task'[t].pc = "resolved"
               /\ task[t].waitTime > 0 /\ now >= task[t].wakeAt
            \/ /\ task[t].pc = "resolved" /\ task'[t].pc = "fetching"
               /\ task'[t].fetches = 1
            \/ /\ task[t].pc = "fetching" /\ task'[t].pc \in {"done", "failed"}
            \/ /\ task[t].pc \in {"done", "failed"} /\ task'[t] = IdleTask
         /\ task'[t] # IdleTask =>
              /\ task'[t].slots = 1
              /\ task'[t].wakeAt = task[t].wakeAt
              /\ task'[t].calledAt = task[t].calledAt]_vars

\* two scrapes limited on the same key were released together and are both
\* fetching, while the limiter's map holds neither
C32_Witness ==
  \E t, u \in Tasks :
    /\ t # u /\ LimitedScrape(t) /\ LimitedScrape(u)
    /\ task[t].url.host = task[u].url.host
    /\ task[t].pc = "fetching" /\ task[u].pc = "fetching"
    /\ task[t].fnAt = now /\ task[u].fnAt = now
    /\ task[t].waitTime > 0 /\ task[u].waitTime > 0
    /\ now \notin {MapGet(requestTimestamps, task[t].url.host)[i] :
                     i \in 1..Len(MapGet(requestTimestamps, task[t].url.host))}

----------------------------------------------------------------------------
(* The hit count under concurrent gets *)

\* the stored hit count of url in table `store`, -1 when it holds no row
HitCountOf(store, url) ==
  IF url \in DOMAIN store THEN store[url].cache_hit_count ELSE -1

\* C33: the UPDATE of a get with hit counting that finds a row, expired or
\* not, raises the stored hit count by exactly 1 over what is stored then,
\* whatever other gets read or wrote in between; a set that is applied
\* leaves it 0; no other step changes it.
C33_HitCountNoLostUpdate ==
  [][\A url \in WaitUrls :
       LET before == HitCountOf(scraper_cache, url)
           after == HitCountOf(scraper_cache', url)
       IN IF \E t \in Tasks : /\ task'[t].op = "set" /\ task'[t].url = url
                              /\ task'[t].writes = 1 /\ task[t].writes = 0
            THEN after = 0
          ELSE IF \E t \in Tasks : /\ task[t].pc = "updating"
                                   /\ task'[t].pc = "done"
                                   /\ task[t].url = url
                                   /\ task[t].update_hit_count
                                   /\ before >= 0
            THEN after = before + 1
          ELSE after = before]_vars

\* two gets of an expired row read it before either wrote: both returned
\* hit count 0 and the row now counts both
C33_Witness ==
  \E t, u \in Tasks :
    /\ t # u /\ task[t].op = "get" /\ task[u].op = "get"
    /\ task[t].pc = "done" /\ task[u].pc = "done"
    /\ task[t].url = task[u].url
    /\ task[t].entry # <<>> /\ task[u].entry # <<>>
    /\ task[t].entry[1].cache_hit_count = 0
    /\ task[u].entry[1].cache_hit_count = 0
    /\ task[t].entry[1].is_expired
    /\ HitCountOf(scraper_cache, task[t].url) = 2

----------------------------------------------------------------------------
(* Miss telemetry *)

\* the scrape task t took a slot of its key: its isRateLimited call
\* appended its timestamp
TookSlot(t) == task[t].slots = 1 /\ ~task[t].limited

\* C34: every scrape that goes to its fetch without cached content, whether
\* its lookup found no fresh entry, the cache was bypassed or the cache was
\* not ready, has recorded exactly one cache miss and taken a rate-limit
\* slot for the URL by the time the fetch starts.
C34_MissRecordedBeforeFetch ==
  \A t \in Tasks :
    Scraping(t) /\ task[t].fetches = 1 =>
      /\ task[t].missEvents = 1
      /\ TookSlot(t)

----------------------------------------------------------------------------
(* Per-strategy telemetry *)

\* a counter of strategy `name` in monitor m, 0 before its first scrape
MetricOf(m, name, field) ==
  IF name \in DOMAIN m.scraperMetrics THEN m.scraperMetrics[name][field]
  ELSE 0

\* C35: the step in which a scrape by a strategy, past its guard, ends in an
\* error raises that strategy's errors and count by one each; the step in
\* which a scrape returns a record it did not take from the cache raises
\* count by one and leaves errors; errors never exceeds count.
C35_ErrorsCountedApart ==
  [][\A t \in Tasks :
       LET r == task'[t]
           ends == /\ r.kind = "scrape"
                   /\ task[t].pc \notin {"idle", "done", "failed"}
                   /\ r.pc \in {"done", "failed"}
       IN /\ ends /\ r.pc = "failed" =>
               /\ MetricOf(monitor', r.name, "errors")
                    = MetricOf(monitor, r.name, "errors") + 1
               /\ MetricOf(monitor', r.name, "count")
                    = MetricOf(monitor, r.name, "count") + 1
          /\ ends /\ r.pc = "done" /\ ~r.cacheHit =>
               /\ MetricOf(monitor', r.name, "errors")
                    = MetricOf(monitor, r.name, "errors")
               /\ MetricOf(monitor', r.name, "count")
                    = MetricOf(monitor, r.name, "count") + 1
          /\ \A name \in Scrapers :
               MetricOf(monitor', name, "errors")
                 <= MetricOf(monitor', name, "count")]_vars

----------------------------------------------------------------------------
(* The generic fallback inside scrape *)

\* C39: when the strategy's own extraction leaves title, company or
\* description empty, the record scrape goes on with is the generic
\* extraction of the same parsed document, whole, after one fetch; when all
\* three are non-empty it is the strategy's own result.
C39_FallbackReplacesWhole ==
  \A t \in Tasks :
    Extracted(t) =>
      LET doc == parseHtml(task[t].page)
          own == extractData(task[t].name, doc, task[t].url)
          generic == extractJobData(doc, task[t].url)
      IN /\ task[t].fetches = 1
         /\ missingFields(own) => task[t].extracted = generic
         /\ ~missingFields(own) => task[t].extracted = own
         /\ task[t].pc = "done" =>
              task[t].data = stamp(cleanJobData(task[t].extracted),
                                   task[t].name, task[t].url)

\* a returned record none of whose fields is the one the site's selectors
\* had found
C39_Witness ==
  \E t \in Tasks :
    /\ Extracted(t) /\ task[t].pc = "done"
    /\ task[t].name = "LinkedIn"
    /\ LET own == extractData("LinkedIn", parseHtml(task[t].page), task[t].url)
       IN /\ own.title # <<>> /\ own.description # <<>>
          /\ own.company = <<>>
          /\ task[t].data.title # own.title
          /\ task[t].data.description # own.description

----------------------------------------------------------------------------
(* Concurrent scrapes of one uncached URL *)

\* the set of task t is applied to the store in this step
SetApplied(t) == task'[t].writes = task[t].writes + 1

\* C38: scrapes of one URL that run side by side are not coalesced: each
\* that misses the cache makes its own fetch.  Whatever the interleaving of
\* their sets, a scrape that reached its cache write returns its own record
\* and never fails there; a set that is applied leaves the URL's row holding
\* that scrape's record, a step that applies no set leaves the row as it is,
\* and once a scrape's upsert_scraper_cache has run the row is there.
C38_RaceLeavesLastApplied ==
  [][/\ \A t \in Tasks :
          LET r == task[t]
              s == task'[t]
          IN /\ s.kind = "scrape" /\ s.pc = "done" /\ ~s.cacheHit =>
                  s.fetches = 1
             /\ r.kind = "scrape" /\ r.pc \in {"cacheSet", "inserting"}
                  /\ s # r =>
                  /\ s.pc \in {"inserting", "done"}
                  /\ s.data = r.data
                  /\ s.err = ""
                  /\ SetApplied(t) =>
                       /\ r.url \in DOMAIN scraper_cache'
                       /\ scraper_cache'[r.url].content = toJsonb(r.data)
                  /\ s.pc = "done" /\ (r.pc = "inserting" \/ SetApplied(t)) =>
                       r.url \in DOMAIN scraper_cache'
     /\ \A url \in DOMAIN scraper_cache :
          /\ url \in DOMAIN scraper_cache'
          /\ (\A t \in Tasks : ~SetApplied(t)) =>
               scraper_cache'[url].content = scraper_cache[url].content]_vars

\* both scrapes missed the cache and fetched; the INSERT of the second
\* raised, and it returned its record all the same: the row holds the first
\* scrape's record, which is not the second's
C38_Witness ==
  \E t, u \in Tasks :
    /\ t # u
    /\ Scraping(t) /\ Scraping(u)
    /\ task[t].url = task[u].url
    /\ task[t].pc = "done" /\ task[u].pc = "done"
    /\ task[t].lookup = "miss" /\ task[u].lookup = "miss"
    /\ task[t].fetches = 1 /\ task[u].fetches = 1
    /\ task[t].writes = 1 /\ task[u].writes = 0
    /\ task[u].lastError = "UNIQUE_VIOLATION"
    /\ task[u].data # task[t].data /\ task[u].data # NoData
    /\ scraper_cache[task[t].url].content = toJsonb(task[t].data)

----------------------------------------------------------------------------
(* What one request spends *)

\* task t serves a request to index.new.ts
NewRequest(t) == task[t].handler = "index.new.ts"

\* the transport fetch attempts and the waitForRateLimit calls of a request
\* so far, those of its earlier scrape included
AttemptsOf(r) == r.spentAttempts + r.attempts
WaitsOf(r) == r.spentWaits + r.slots

\* how far a request is from its response: the scrapes it may still start,
\* then the awaits its running scrape has before it, then the attempts its
\* fetch has left
Rank(r) ==
  IF r.pc = "responded" THEN 0
  ELSE 1 + 8 * (2 - Len(r.tried))
         + CASE r.pc = "cacheGet" -> 7
             [] r.pc = "sleeping" -> 6
             [] r.pc = "resolved" -> 5
             [] r.pc = "fetching" -> 1 + r.attemptsLeft
             [] r.pc = "cacheSet" -> 1
             [] OTHER -> 0

\* C37: a request starts at most two scrapes, each of which calls
\* waitForRateLimit at most once and makes at most `retries` fetch attempts,
\* so the request makes at most 2 * retries attempts and 2 limiter waits;
\* every step of a request brings it nearer to its response, and the
\* response carries a record or an error.
C37_RequestSpendsTwoBudgets ==
  [][\A t \in Tasks :
       LET r == task[t]
           s == task'[t]
       IN /\ s.handler = "index.new.ts" =>
               /\ Len(s.tried) <= 2
               /\ s.attempts <= DefaultRetries
               /\ s.slots <= 1
               /\ AttemptsOf(s) <= 2 * DefaultRetries
               /\ WaitsOf(s) <= 2
               /\ s.pc = "responded" =>
                    \/ s.resp.status = 200 /\ s.resp.data # NoData
                    \/ s.resp.status \in {400, 500} /\ s.resp.data = NoData
          /\ r.handler = "index.new.ts" /\ r.pc # "responded" /\ s # r =>
               /\ s.handler = "index.new.ts"
               /\ Rank(s) < Rank(r)]_vars

\* a request that spent both budgets in full: three failed attempts of the
\* resolved strategy, three of the generic one, a limiter wait before each
C37_Witness ==
  \E t \in Tasks :
    /\ NewRequest(t) /\ task[t].pc = "responded"
    /\ Len(task[t].tried) = 2
    /\ AttemptsOf(task[t]) = 2 * DefaultRetries
    /\ WaitsOf(task[t]) = 2
    /\ task[t].resp.status = 500

====
